---- MODULE Spec2Model ----
(***************************************************************************)
(* MicroSD-Pico: the filesystem session (SDCard) and the stream handle     *)
(* (SDCard::FileHandle) of src/src/micro_sd.cpp, over an external FatFs    *)
(* engine and SPI transport whose calls are recorded as they are issued    *)
(* and whose statuses are chosen nondeterministically.                     *)
(***************************************************************************)
EXTENDS Integers, Sequences, FiniteSets, TLC

\* ------------------------------------------------------------------ bounds
NumHandles == 2
MaxFiles == 2
NumSessions == 2
MaxMounts == 2

\* --------------------------------------------------------- program constants
\* for (int i = 0; i < 5; i++) in mount_filesystem
MountRetries == 5

Handles == 1..NumHandles
FileIds == 1..MaxFiles
Sessions == 1..NumSessions
MountIds == 1..MaxMounts

\* ------------------------------------------------------------ error taxonomy
ErrorCodes ==
  {"SUCCESS", "INIT_FAILED", "MOUNT_FAILED", "FILE_NOT_FOUND", "PERMISSION_DENIED",
   "DISK_FULL", "IO_ERROR", "INVALID_PARAMETER", "FATFS_ERROR", "UNKNOWN_ERROR"}

\* The engine's native statuses (FRESULT of ff.h).
FResults ==
  {"FR_OK", "FR_DISK_ERR", "FR_INT_ERR", "FR_NOT_READY", "FR_NO_FILE", "FR_NO_PATH",
   "FR_INVALID_NAME", "FR_DENIED", "FR_EXIST", "FR_INVALID_OBJECT",
   "FR_WRITE_PROTECTED", "FR_INVALID_DRIVE", "FR_NOT_ENABLED", "FR_NO_FILESYSTEM",
   "FR_MKFS_ABORTED", "FR_TIMEOUT", "FR_LOCKED", "FR_NOT_ENOUGH_CORE",
   "FR_TOO_MANY_OPEN_FILES", "FR_INVALID_PARAMETER"}

fresult_to_error_code(fr) ==
  CASE fr = "FR_OK" -> "SUCCESS"
    [] fr = "FR_NO_FILE" -> "FILE_NOT_FOUND"
    [] fr = "FR_NO_PATH" -> "FILE_NOT_FOUND"
    [] fr = "FR_INVALID_NAME" -> "INVALID_PARAMETER"
    [] fr = "FR_DENIED" -> "PERMISSION_DENIED"
    [] fr = "FR_DISK_ERR" -> "IO_ERROR"
    [] fr = "FR_NOT_READY" -> "INIT_FAILED"
    [] fr = "FR_WRITE_PROTECTED" -> "IO_ERROR"
    [] OTHER -> "UNKNOWN_ERROR"

\* Result<T>::is_ok / is_error
is_ok(kind) == kind = "SUCCESS"
is_error(kind) == ~is_ok(kind)

\* ------------------------------------------------------------ path utilities
\* A path is a sequence of characters (one-character strings).
RECURSIVE CollapseFrom(_, _)
\* while ((pos = normalized.find("//", pos)) != npos) normalized.replace(pos, 2, "/");
\* pos is 1-based here; the search resumes at the position of the replacement.
CollapseFrom(s, pos) ==
  IF pos + 1 > Len(s) THEN s
  ELSE IF s[pos] = "/" /\ s[pos + 1] = "/"
       THEN CollapseFrom(SubSeq(s, 1, pos) \o SubSeq(s, pos + 2, Len(s)), pos)
       ELSE CollapseFrom(s, pos + 1)

normalize_path(path) ==
  IF path = <<>> \/ path = <<".">> THEN <<"/">>
  ELSE LET lead == IF path[1] # "/" THEN <<"/">> \o path ELSE path
           cut == IF Len(lead) > 1 /\ lead[Len(lead)] = "/"
                  THEN SubSeq(lead, 1, Len(lead) - 1) ELSE lead
       IN CollapseFrom(cut, 1)

\* The path arguments the callers of this model pass.
RawPaths == { <<"a">>, <<"/", "b", "/">> }

\* The paths of the medium's files: what the callers' paths normalize to.
DiskPaths == { normalize_path(p) : p \in RawPaths }
\* A path with no file, and an engine file object that is not open.
NoFile == [on |-> FALSE, bytes |-> <<>>]
NoObject == [open |-> FALSE, path |-> <<>>, flags |-> {}, fptr |-> 0]
\* The null file object pointer.
NullObject == 0 - 1

\* ------------------------------------------------------------------- state
VARIABLES
  \* FileHandle objects
  hLife,      \* "unborn" | "alive" | "dead": the object's lifetime
  is_open,    \* FileHandle::is_open_
  file_,      \* FileHandle::file_: the engine file object it holds (0: none yet)
  path_,      \* FileHandle::path_
  \* engine file objects
  nFiles,     \* engine file objects created by a successful f_open
  fcloses,    \* f_close calls received by each engine file object
  fkept,      \* the open that created the object left its handle Open
  \* SDCard objects
  sLife,      \* "unborn" | "alive" | "dead"
  is_mounted, \* SDCard::is_mounted_
  fs_type,    \* SDCard::fs_type_
  fs_,        \* SDCard::fs_: the mount the FATFS object belongs to (0: none)
  has_dir,    \* SDCard::current_dir_ is non-null
  current_path, \* SDCard::current_path_
  \* engine and transport
  nMounts,    \* f_mount calls that returned FR_OK
  unmounts,   \* f_unmount calls issued for each mount
  deinits,    \* spi_deinit calls issued for each mount by its teardown
  owner,      \* the session each mount belongs to (0: torn down)
  spiUp,      \* spi_init calls minus spi_deinit calls
  \* the medium, as the engine keeps it
  disk,       \* each path's file: whether it exists and the bytes it holds
  fobj,       \* each engine file object: the path it is open on, its flags and
              \* its read/write pointer (object 0: the FIL local to a whole-file
              \* operation)
  synced,     \* each path's file size as its directory entry records it: what
              \* another file object finds there
  \* the last operation: its target, arguments, engine calls and Result
  last

hvars == <<hLife, is_open, file_, path_, nFiles, fcloses, fkept>>
svars == <<sLife, is_mounted, fs_type, fs_, has_dir, current_path,
           nMounts, unmounts, deinits, owner, spiUp>>
evars == <<disk, fobj, synced>>
vars == <<hvars, svars, evars, last>>

\* An operation's record: what it was called on and with, what it issued, what
\* it returned.
LastRec(op, obj, src, arg, was, w) ==
  [op |-> op, obj |-> obj, src |-> src, arg |-> arg, was |-> was,
   kind |-> w.kind, fr |-> w.fr, msg |-> w.msg, val |-> w.val,
   has_value |-> w.has_value, calls |-> w.calls]

\* One engine or transport call, in issue order; ok is the call's FR_OK-ness
\* (TRUE for calls that return nothing).
Call(w, fn, ok) == [w EXCEPT !.calls = Append(@, [fn |-> fn, ok |-> ok])]

\* What the engine is handed and hands back in one call: the file object id,
\* the path and flags of an open, a count n (a position, a size, the bytes
\* reported written), at_size when the count passed is the value f_size has
\* just returned, and the bytes transferred; args gives the fields the call
\* uses.
IoRec(fn, ok, args) ==
  args @@ [fn |-> fn, ok |-> ok, id |-> 0, path |-> <<>>, flags |-> {}, n |-> 0,
           at_size |-> FALSE, bytes |-> <<>>]

\* A call with what it passes and receives.
CallIo(w, fn, ok, args) ==
  [Call(w, fn, ok) EXCEPT !.io = Append(@, IoRec(fn, ok, args))]

\* A transfer call (f_read, f_write): asked is the byte count passed to the
\* engine and done the count it reports back.
CallCount(w, fn, ok, asked, done) ==
  [w EXCEPT !.calls = Append(@, [fn |-> fn, ok |-> ok, asked |-> asked, done |-> done])]

\* return Result<T>(value) / Result<void>(): has_value is the optional value_
\* holding a value (for Result<void>: the Result was built without an error).
RetOk(w) == [w EXCEPT !.kind = "SUCCESS", !.msg = <<>>, !.has_value = TRUE]
\* return Result<T>(error, message): value_ is left empty.
RetErr(w, kind, msg) == [w EXCEPT !.kind = kind, !.msg = msg, !.has_value = FALSE]
\* return Result<T>(fresult_to_error_code(fr), message)
RetFr(w, fr, msg) ==
  [w EXCEPT !.kind = fresult_to_error_code(fr), !.fr = fr, !.msg = msg,
            !.has_value = FALSE]

CountCalls(calls, fn) == Cardinality({i \in DOMAIN calls : calls[i].fn = fn})

\* ------------------------------------------------------------ stream handle
\* The FileHandle objects and the engine's file objects before an operation.
HWorld ==
  [life |-> hLife, is_open |-> is_open, file_ |-> file_, path_ |-> path_,
   nFiles |-> nFiles, fcloses |-> fcloses, fkept |-> fkept, io |-> <<>>,
   calls |-> <<>>, kind |-> "SUCCESS", fr |-> "FR_OK", msg |-> <<>>, val |-> <<>>,
   has_value |-> FALSE]

\* What a moved-from std::string holds: the library's move operations leave
\* the source empty.
MovedFrom == <<>>

\* The mode tokens of FileHandle::open, and the arguments callers pass.
OpenModes == {"r", "w", "a", "r+", "w+", "a+"}
ModeArgs == OpenModes \cup {"x"}

fatfs_mode(mode) ==
  CASE mode = "r" -> {"FA_READ"}
    [] mode = "w" -> {"FA_WRITE", "FA_CREATE_ALWAYS"}
    [] mode = "a" -> {"FA_WRITE", "FA_OPEN_ALWAYS"}
    [] mode = "r+" -> {"FA_READ", "FA_WRITE"}
    [] mode = "w+" -> {"FA_READ", "FA_WRITE", "FA_CREATE_ALWAYS"}
    [] mode = "a+" -> {"FA_READ", "FA_WRITE", "FA_OPEN_ALWAYS"}
    [] OTHER -> {}

\* A close that issues f_close but leaves is_open_ set.
FhCloseKeepsOpen(w, h) ==
  IF w.is_open[h]
  THEN Call([w EXCEPT !.fcloses[w.file_[h]] = @ + 1], "f_close", TRUE)
  ELSE w

\* void FileHandle::close()
FhClose(w, h) ==
  IF w.is_open[h]
  THEN CallIo([w EXCEPT !.fcloses[w.file_[h]] = @ + 1,
                        !.is_open[h] = FALSE,
                        !.path_[h] = <<>>], "f_close", TRUE, [id |-> w.file_[h]])
  ELSE w

\* FileHandle::FileHandle() : is_open_(false)
FhConstruct(w, h) ==
  [w EXCEPT !.life[h] = "alive", !.is_open[h] = FALSE, !.file_[h] = 0,
            !.path_[h] = <<>>]

\* FileHandle::~FileHandle() { close(); }; the members' storage ends with the
\* object.
FhDestroy(w, h) ==
  [FhClose(w, h) EXCEPT !.life[h] = "dead", !.is_open[h] = FALSE,
                        !.file_[h] = 0, !.path_[h] = <<>>]

\* A move constructor that leaves the source's is_open_ set.
FhMoveConstructKeepsSource(w, d, s) ==
  [w EXCEPT !.life[d] = "alive",
            !.file_[d] = w.file_[s],
            !.is_open[d] = w.is_open[s],
            !.path_[d] = w.path_[s],
            !.path_[s] = MovedFrom]

\* FileHandle::FileHandle(FileHandle&& other)
FhMoveConstruct(w, d, s) ==
  [w EXCEPT !.life[d] = "alive",
            !.file_[d] = w.file_[s],
            !.is_open[d] = w.is_open[s],
            !.path_[d] = w.path_[s],
            !.path_[s] = MovedFrom,
            !.is_open[s] = FALSE]

\* FileHandle& FileHandle::operator=(FileHandle&& other)
FhMoveAssign(w, d, s) ==
  IF d # s
  THEN LET c == FhClose(w, d)
       IN [c EXCEPT !.file_[d] = c.file_[s],
                    !.is_open[d] = c.is_open[s],
                    !.path_[d] = c.path_[s],
                    !.path_[s] = MovedFrom,
                    !.is_open[s] = FALSE]
  ELSE w

\* An open that returns the seek error of an append mode without closing the
\* engine file object it has just opened.
FhOpenLeaksOnSeekFailure(w, h, path, mode, frOpen, frSeek) ==
  LET w1 == IF w.is_open[h] THEN FhClose(w, h) ELSE w
      np == normalize_path(path)
      id == w1.nFiles + 1
      opened(x) == RetOk([x EXCEPT !.is_open[h] = TRUE, !.path_[h] = np,
                                   !.fkept[id] = TRUE])
  IN IF fatfs_mode(mode) = {}
     THEN RetErr(w1, "INVALID_PARAMETER", <<"invalid open mode: ", mode>>)
     ELSE LET w2 == Call(w1, "f_open", frOpen = "FR_OK")
          IN IF frOpen # "FR_OK"
             THEN RetFr(w2, frOpen, <<"open failed: ">>)
             ELSE LET w3 == [w2 EXCEPT !.nFiles = id, !.file_[h] = id]
                  IN IF mode = "a" \/ mode = "a+"
                     THEN LET w4 == Call(Call(w3, "f_size", TRUE),
                                         "f_lseek", frSeek = "FR_OK")
                          IN IF frSeek # "FR_OK"
                             THEN RetFr(w4, frSeek, <<"seek failed">>)
                             ELSE opened(w4)
                     ELSE opened(w3)

\* An open that leaves the pointer of an appending handle at the start.
FhOpenSkipsAppendSeek(w, h, path, mode, frOpen, frSeek) ==
  LET w1 == IF w.is_open[h] THEN FhClose(w, h) ELSE w
      np == normalize_path(path)
      id == w1.nFiles + 1
      opened(x) == RetOk([x EXCEPT !.is_open[h] = TRUE, !.path_[h] = np,
                                   !.fkept[id] = TRUE])
  IN IF fatfs_mode(mode) = {}
     THEN RetErr(w1, "INVALID_PARAMETER", <<"invalid open mode: ", mode>>)
     ELSE LET w2 == CallIo(w1, "f_open", frOpen = "FR_OK",
                            [id |-> id, path |-> np, flags |-> fatfs_mode(mode)])
          IN IF frOpen # "FR_OK"
             THEN RetFr(w2, frOpen, <<"open failed: ">>)
             ELSE LET w3 == [w2 EXCEPT !.nFiles = id, !.file_[h] = id]
                  IN opened(w3)

\* An open that does not close the file the handle holds.
FhOpenKeepsOldFile(w, h, path, mode, frOpen, frSeek) ==
  LET np == normalize_path(path)
      id == w.nFiles + 1
      opened(x) == RetOk([x EXCEPT !.is_open[h] = TRUE, !.path_[h] = np,
                                   !.fkept[id] = TRUE])
  IN IF fatfs_mode(mode) = {}
     THEN RetErr(w, "INVALID_PARAMETER", <<"invalid open mode: ", mode>>)
     ELSE LET w2 == Call(w, "f_open", frOpen = "FR_OK")
          IN IF frOpen # "FR_OK"
             THEN RetFr(w2, frOpen, <<"open failed: ">>)
             ELSE LET w3 == [w2 EXCEPT !.nFiles = id, !.file_[h] = id]
                  IN IF mode = "a" \/ mode = "a+"
                     THEN LET w4 == Call(Call(w3, "f_size", TRUE),
                                         "f_lseek", frSeek = "FR_OK")
                          IN IF frSeek # "FR_OK"
                             THEN RetFr(Call([w4 EXCEPT !.fcloses[id] = @ + 1],
                                             "f_close", TRUE),
                                        frSeek, <<"seek failed">>)
                             ELSE opened(w4)
                     ELSE opened(w3)

\* Result<void> FileHandle::open(path, mode); frOpen and frSeek are the
\* statuses the engine gives f_open and f_lseek.
FhOpen(w, h, path, mode, frOpen, frSeek) ==
  LET w1 == IF w.is_open[h] THEN FhClose(w, h) ELSE w
      np == normalize_path(path)
      id == w1.nFiles + 1
      opened(x) == RetOk([x EXCEPT !.is_open[h] = TRUE, !.path_[h] = np,
                                   !.fkept[id] = TRUE])
  IN IF fatfs_mode(mode) = {}
     THEN RetErr(w1, "INVALID_PARAMETER", <<"invalid open mode: ", mode>>)
     ELSE LET w2 == CallIo(w1, "f_open", frOpen = "FR_OK",
                            [id |-> id, path |-> np, flags |-> fatfs_mode(mode)])
          IN IF frOpen # "FR_OK"
             THEN RetFr(w2, frOpen, <<"open failed: ">>)
             ELSE LET w3 == [w2 EXCEPT !.nFiles = id, !.file_[h] = id]
                  IN IF mode = "a" \/ mode = "a+"
                     THEN LET w4 == CallIo(CallIo(w3, "f_size", TRUE, [id |-> id]),
                                           "f_lseek", frSeek = "FR_OK",
                                           [id |-> id, at_size |-> TRUE])
                          IN IF frSeek # "FR_OK"
                             THEN RetFr(CallIo([w4 EXCEPT !.fcloses[id] = @ + 1],
                                               "f_close", TRUE, [id |-> id]),
                                        frSeek, <<"seek failed">>)
                             ELSE opened(w4)
                     ELSE opened(w3)

NotOpen(w) == RetErr(w, "PERMISSION_DENIED", <<"file not open">>)

\* Result<vector<uint8_t>> FileHandle::read(size); got is the number of bytes
\* the engine reports read.
FhRead(w, h, size, fr, got) ==
  IF ~w.is_open[h] THEN NotOpen(w)
  ELSE LET w1 == Call(w, "f_read", fr = "FR_OK")
       IN IF fr # "FR_OK" THEN RetFr(w1, fr, <<"read failed">>)
          ELSE [RetOk(w1) EXCEPT !.val = got]

\* A read_line loop that keeps the carriage returns in the line.
RECURSIVE ReadLineLoopKeepsReturns(_, _, _, _)
ReadLineLoopKeepsReturns(w, h, answers, line) ==
  IF answers = <<>> THEN [RetOk(w) EXCEPT !.val = line]
  ELSE LET a == Head(answers)
           w1 == CallIo(w, "f_read", a # "err",
                        [id |-> w.file_[h], n |-> 1,
                         bytes |-> IF a \in {"err", "eof"} THEN <<>> ELSE <<a>>])
       IN IF a = "err" THEN RetFr(w1, "FR_DISK_ERR", <<"read failed: ", "FR_DISK_ERR">>)
          ELSE IF a = "eof" THEN [RetOk(w1) EXCEPT !.val = line]
          ELSE IF a = "\n" THEN [RetOk(w1) EXCEPT !.val = line]
          ELSE ReadLineLoopKeepsReturns(w1, h, Tail(answers), Append(line, a))

\* The loop of read_line of handle h over the engine's answers to its
\* one-byte reads: "err" (a failing status), "eof" (bytes_read == 0) or the
\* byte read.
RECURSIVE ReadLineLoop(_, _, _, _)
ReadLineLoop(w, h, answers, line) ==
  IF answers = <<>> THEN [RetOk(w) EXCEPT !.val = line]
  ELSE LET a == Head(answers)
           w1 == CallIo(w, "f_read", a # "err",
                        [id |-> w.file_[h], n |-> 1,
                         bytes |-> IF a \in {"err", "eof"} THEN <<>> ELSE <<a>>])
       IN IF a = "err" THEN RetFr(w1, "FR_DISK_ERR", <<"read failed: ", "FR_DISK_ERR">>)
          ELSE IF a = "eof" THEN [RetOk(w1) EXCEPT !.val = line]
          ELSE IF a = "\n" THEN [RetOk(w1) EXCEPT !.val = line]
          ELSE IF a # "\r" THEN ReadLineLoop(w1, h, Tail(answers), Append(line, a))
          ELSE ReadLineLoop(w1, h, Tail(answers), line)

\* The engine's answers to the reads of one read_line call: each ends in the
\* answer that ends the loop.
ReadScripts ==
  { <<"eof">>, <<"x", "\r", "\n">>, <<"\r", "y", "eof">>, <<"x", "err">> }

\* Result<string> FileHandle::read_line()
FhReadLine(w, h, answers) ==
  IF ~w.is_open[h] THEN NotOpen(w)
  ELSE ReadLineLoop(w, h, answers, <<>>)

\* A write that hands a short acknowledgement to the error translation.
FhWriteTranslatesShortWrite(w, h, data, fr, put) ==
  IF ~w.is_open[h] THEN NotOpen(w)
  ELSE LET w0 == CallCount(w, "f_write", fr = "FR_OK", Len(data), put)
       IN IF fr # "FR_OK" \/ put # Len(data) THEN RetFr(w0, fr, <<"write failed">>)
          ELSE [RetOk(w0) EXCEPT !.val = put]

\* A write that treats a short acknowledgement as write_file does: an error.
FhWriteEscalatesShortWrite(w, h, data, fr, put) ==
  IF ~w.is_open[h] THEN NotOpen(w)
  ELSE LET w0 == CallCount(w, "f_write", fr = "FR_OK", Len(data), put)
       IN IF fr # "FR_OK" THEN RetFr(w0, fr, <<"write failed">>)
          ELSE IF put # Len(data) THEN RetErr(w0, "IO_ERROR", <<"short write">>)
          ELSE [RetOk(w0) EXCEPT !.val = put]

\* Result<size_t> FileHandle::write(const vector<uint8_t>&); put is the number
\* of bytes the engine reports written.
FhWrite(w, h, data, fr, put) ==
  IF ~w.is_open[h] THEN NotOpen(w)
  ELSE LET w0 == CallCount(w, "f_write", fr = "FR_OK", Len(data), put)
           w1 == [w0 EXCEPT !.io = Append(@, IoRec("f_write", fr = "FR_OK",
                                   [id |-> w.file_[h], bytes |-> data, n |-> put]))]
       IN IF fr # "FR_OK" THEN RetFr(w1, fr, <<"write failed">>)
          ELSE [RetOk(w1) EXCEPT !.val = put]

\* std::vector<uint8_t> data(text.begin(), text.end())
TextBytes(text) == [i \in 1..Len(text) |-> text[i]]

\* Result<size_t> FileHandle::write(const string&)
FhWriteText(w, h, text, fr, put) == FhWrite(w, h, TextBytes(text), fr, put)

\* A seek that does not check is_open_.
FhSeekUnchecked(w, h, position, fr) ==
  LET w1 == Call(w, "f_lseek", fr = "FR_OK")
  IN IF fr # "FR_OK" THEN RetFr(w1, fr, <<"seek failed">>) ELSE RetOk(w1)

\* Result<void> FileHandle::seek(position)
FhSeek(w, h, position, fr) ==
  IF ~w.is_open[h] THEN NotOpen(w)
  ELSE LET w1 == Call(w, "f_lseek", fr = "FR_OK")
       IN IF fr # "FR_OK" THEN RetFr(w1, fr, <<"seek failed">>) ELSE RetOk(w1)

\* Result<size_t> FileHandle::tell() const; at is what f_tell reads
FhTell(w, h, at) ==
  IF ~w.is_open[h] THEN NotOpen(w)
  ELSE [RetOk(CallIo(w, "f_tell", TRUE, [id |-> w.file_[h], n |-> at])) EXCEPT
          !.val = at]

\* Result<size_t> FileHandle::size() const; n is what f_size reads
FhSize(w, h, n) ==
  IF ~w.is_open[h] THEN NotOpen(w)
  ELSE [RetOk(Call(w, "f_size", TRUE)) EXCEPT !.val = n]

\* Result<void> FileHandle::flush()
FhFlush(w, h, fr) ==
  IF ~w.is_open[h] THEN NotOpen(w)
  ELSE LET w1 == CallIo(w, "f_sync", fr = "FR_OK", [id |-> w.file_[h]])
       IN IF fr # "FR_OK" THEN RetFr(w1, fr, <<"sync failed">>) ELSE RetOk(w1)

\* ---------------------------------------------------- stream handle actions
\* Statuses the engine gives the calls of a handle.
OpenStatuses == {"FR_OK", "FR_NO_FILE"}
IoStatuses == {"FR_OK", "FR_DISK_ERR"}
\* Payloads, sizes and positions callers pass.
Payloads == { <<"x", "y">> }
Texts == { <<"z">> }

\* The statuses f_lseek can give an open: it is called in the append modes once
\* f_open has succeeded.
SeekStatuses(mode, frOpen) ==
  IF frOpen = "FR_OK" /\ mode \in {"a", "a+"} THEN IoStatuses ELSE {"FR_OK"}

\* The statuses f_open can give an open: it is called once the mode is valid.
OpenAnswers(mode) == IF mode \in OpenModes THEN OpenStatuses ELSE {"FR_OK"}

\* What the engine can report transferred of n bytes under status fr.
Transferred(n, fr) == IF fr = "FR_OK" THEN 0..n ELSE {0}

\* The answers the engine can give a handle's call: a handle that is not open
\* issues none, so there is one way for the call to go.
Answers(h, set) == IF is_open[h] THEN set ELSE {CHOOSE x \in set : TRUE}

HSet(w, op, h, src, arg, was) ==
  /\ hLife' = w.life
  /\ is_open' = w.is_open
  /\ file_' = w.file_
  /\ path_' = w.path_
  /\ nFiles' = w.nFiles
  /\ fcloses' = w.fcloses
  /\ fkept' = w.fkept
  /\ last' = LastRec(op, h, src, arg, was, w)

\* An operation on the handles with engine answers of any kind: the medium is
\* left out of account.
HCommit(w, op, h, src, arg, was) ==
  /\ \E x \in {w} : HSet(x, op, h, src, arg, was)
  /\ UNCHANGED <<svars, evars>>

Alive(h) == hLife[h] = "alive"

HConstruct(h) ==
  /\ hLife[h] = "unborn"
  /\ HCommit(FhConstruct(HWorld, h), "construct", h, 0, "", FALSE)

HDestroy(h) ==
  /\ Alive(h)
  /\ HCommit(FhDestroy(HWorld, h), "destroy", h, 0, "", is_open[h])

HMoveConstruct(d, s) ==
  /\ hLife[d] = "unborn" /\ Alive(s)
  /\ HCommit(FhMoveConstruct(HWorld, d, s), "move_construct", d, s, "", is_open[s])

HMoveAssign(d, s) ==
  /\ Alive(d) /\ Alive(s)
  /\ HCommit(FhMoveAssign(HWorld, d, s), "move_assign", d, s, "", is_open[s])

HOpen(h) ==
  /\ Alive(h)
  /\ \E mode \in ModeArgs :
     \E path \in RawPaths, frOpen \in OpenAnswers(mode) :
     \E frSeek \in SeekStatuses(mode, frOpen) :
       /\ nFiles < MaxFiles \/ frOpen # "FR_OK" \/ mode \notin OpenModes
       /\ HCommit(FhOpen(HWorld, h, path, mode, frOpen, frSeek), "open", h, 0,
                  mode, is_open[h])

HClose(h) ==
  /\ Alive(h)
  /\ HCommit(FhClose(HWorld, h), "close", h, 0, "", is_open[h])

HRead(h) ==
  /\ Alive(h)
  /\ \E size \in {1}, fr \in Answers(h, IoStatuses) :
     \E got \in Transferred(size, fr) :
       HCommit(FhRead(HWorld, h, size, fr, got), "read", h, 0, "", is_open[h])

HReadLine(h) ==
  /\ Alive(h)
  /\ \E answers \in Answers(h, ReadScripts) :
       HCommit(FhReadLine(HWorld, h, answers), "read_line", h, 0, "", is_open[h])

HWrite(h) ==
  /\ Alive(h)
  /\ \E data \in Payloads, fr \in Answers(h, IoStatuses) :
       \E put \in Transferred(Len(data), fr) :
         HCommit(FhWrite(HWorld, h, data, fr, put), "write", h, 0, "", is_open[h])

HWriteText(h) ==
  /\ Alive(h)
  /\ \E text \in Texts, fr \in Answers(h, IoStatuses) :
       \E put \in Transferred(Len(text), fr) :
         HCommit(FhWriteText(HWorld, h, text, fr, put), "write_text", h, 0, "",
                 is_open[h])

HSeek(h) ==
  /\ Alive(h)
  /\ \E position \in {1}, fr \in Answers(h, IoStatuses) :
       HCommit(FhSeek(HWorld, h, position, fr), "seek", h, 0, "", is_open[h])

HTell(h) ==
  /\ Alive(h)
  /\ \E at \in Answers(h, 0..1) :
       HCommit(FhTell(HWorld, h, at), "tell", h, 0, "", is_open[h])

HSize(h) ==
  /\ Alive(h)
  /\ \E n \in Answers(h, 0..1) :
       HCommit(FhSize(HWorld, h, n), "size", h, 0, "", is_open[h])

HFlush(h) ==
  /\ Alive(h)
  /\ \E fr \in Answers(h, IoStatuses) :
       HCommit(FhFlush(HWorld, h, fr), "flush", h, 0, "", is_open[h])

NoOp ==
  [op |-> "none", obj |-> 0, src |-> 0, arg |-> "", was |-> FALSE,
   kind |-> "SUCCESS", fr |-> "FR_OK", msg |-> <<>>, val |-> <<>>,
   has_value |-> FALSE, calls |-> <<>>]

Init ==
  /\ hLife = [h \in Handles |-> "unborn"]
  /\ is_open = [h \in Handles |-> FALSE]
  /\ file_ = [h \in Handles |-> 0]
  /\ path_ = [h \in Handles |-> <<>>]
  /\ nFiles = 0
  /\ fcloses = [i \in FileIds |-> 0]
  /\ fkept = [i \in FileIds |-> FALSE]
  /\ sLife = [s \in Sessions |-> "unborn"]
  /\ is_mounted = [s \in Sessions |-> FALSE]
  /\ fs_type = [s \in Sessions |-> "0"]
  /\ fs_ = [s \in Sessions |-> 0]
  /\ has_dir = [s \in Sessions |-> FALSE]
  /\ current_path = [s \in Sessions |-> <<>>]
  /\ nMounts = 0
  /\ unmounts = [m \in MountIds |-> 0]
  /\ deinits = [m \in MountIds |-> 0]
  /\ owner = [m \in MountIds |-> 0]
  /\ spiUp = 0
  /\ disk = [p \in DiskPaths |-> NoFile]
  /\ fobj = [i \in 0..MaxFiles |-> NoObject]
  /\ synced = [p \in DiskPaths |-> 0]
  /\ last = NoOp

HandleLifeNext ==
  \/ \E h \in Handles : HConstruct(h)
  \/ \E h \in Handles : HDestroy(h)
  \/ \E d \in Handles, s \in Handles : HMoveConstruct(d, s)
  \/ \E d \in Handles, s \in Handles : HMoveAssign(d, s)
  \/ \E h \in Handles : HOpen(h)
  \/ \E h \in Handles : HClose(h)

HandleIoNext ==
  \/ \E h \in Handles : HRead(h)
  \/ \E h \in Handles : HReadLine(h)
  \/ \E h \in Handles : HWrite(h)
  \/ \E h \in Handles : HWriteText(h)
  \/ \E h \in Handles : HSeek(h)
  \/ \E h \in Handles : HTell(h)
  \/ \E h \in Handles : HSize(h)
  \/ \E h \in Handles : HFlush(h)

\* The lifetime of the stream handles (construction, open, close, moves,
\* destruction), against an engine that may fail any call.
HandleSpec == Init /\ [][HandleLifeNext]_vars

\* The same with the handles' transfer and positioning operations.
HandleIoSpec == Init /\ [][HandleLifeNext \/ HandleIoNext]_vars

\* ------------------------------------------------- stream handle properties
\* The live handles that are open on engine file object id.
Holders(id) == {h \in Handles : Alive(h) /\ is_open[h] /\ file_[h] = id}

IoOps == {"read", "read_line", "write", "write_text", "seek", "tell", "size", "flush"}

\* C1: every engine file object whose open left its handle Open is held by
\* exactly one open handle until it receives its one f_close, and none after;
\* no engine file object is ever closed twice; close() (explicit or by the
\* destructor) on a handle that is not open issues no engine call and leaves
\* it not open, and on an open handle it issues exactly one f_close.
C1_OpenMatchedByOneClose ==
  /\ \A id \in FileIds : fcloses[id] <= 1
  /\ \A id \in 1..nFiles :
       fkept[id] =>
         /\ fcloses[id] = 0 <=> Cardinality(Holders(id)) = 1
         /\ fcloses[id] = 1 <=> Holders(id) = {}
  /\ last.op \in {"close", "destroy"} =>
       /\ ~is_open[last.obj]
       /\ last.calls = IF last.was THEN <<[fn |-> "f_close", ok |-> TRUE]>> ELSE <<>>

\* A second close: close() on a handle that holds an engine file object which
\* was opened and has already been closed once.
C1_Witness ==
  /\ last.op = "close" /\ ~last.was
  /\ file_[last.obj] \in 1..nFiles
  /\ fkept[file_[last.obj]]
  /\ fcloses[file_[last.obj]] = 1

\* C9: open with a mode other than the six tokens returns InvalidParameter
\* and issues no engine call, whether the handle was Closed or Open.
C9_InvalidModeTouchesNoEngine ==
  (last.op = "open" /\ last.arg \notin OpenModes) =>
    (last.kind = "INVALID_PARAMETER" /\ last.calls = <<>>)

\* C10 as stated: at most one open handle refers to an open engine file
\* object, and after every move construction and move assignment the source is
\* not open and the destination is open iff the source was.
C10_Original ==
  /\ \A id \in 1..nFiles : Cardinality(Holders(id)) <= 1
  /\ last.op \in {"move_construct", "move_assign"} =>
       /\ ~is_open[last.src]
       /\ is_open[last.obj] <=> last.was

\* C10 amended: at most one open handle refers to an open engine file object;
\* after a move construction, and after a move assignment from a different
\* handle, the source is not open and the destination is open iff the source
\* was; a move assignment of a handle to itself issues no engine call and
\* leaves it open iff it was.
C10_ExclusiveOwnership ==
  /\ \A id \in 1..nFiles : Cardinality(Holders(id)) <= 1
  /\ (last.op = "move_construct" \/ (last.op = "move_assign" /\ last.src # last.obj)) =>
       /\ ~is_open[last.src]
       /\ is_open[last.obj] <=> last.was
  /\ (last.op = "move_assign" /\ last.src = last.obj) =>
       /\ is_open[last.obj] <=> last.was
       /\ last.calls = <<>>

\* An open handle has been move-assigned to another handle.
C10_Witness ==
  /\ last.op = "move_assign" /\ last.src # last.obj /\ last.was
  /\ is_open[last.obj] /\ ~is_open[last.src]
  /\ Holders(file_[last.obj]) = {last.obj}

\* The record of an open in an append mode whose f_open succeeded and whose
\* f_lseek to the end of the file failed.
AppendSeekFailed(rec) ==
  /\ rec.op = "open" /\ rec.arg \in {"a", "a+"}
  /\ \E i \in DOMAIN rec.calls : rec.calls[i] = [fn |-> "f_lseek", ok |-> FALSE]

\* C11: when open in mode a or a+ gets FR_OK from f_open and a failure from
\* the f_lseek to the end of the file, the call issues f_open, f_size,
\* f_lseek and then exactly one f_close on the engine file object it opened
\* (after the f_close of a re-open, if the handle was open), that object has
\* been closed once and is held by no handle, the handle is not open, and the
\* error returned is the translation of the seek status.
C11_AppendSeekFailureCloses ==
  AppendSeekFailed(last) =>
    /\ last.calls =
         (IF last.was THEN <<[fn |-> "f_close", ok |-> TRUE]>> ELSE <<>>)
         \o <<[fn |-> "f_open", ok |-> TRUE], [fn |-> "f_size", ok |-> TRUE],
              [fn |-> "f_lseek", ok |-> FALSE], [fn |-> "f_close", ok |-> TRUE]>>
    /\ ~is_open[last.obj]
    /\ file_[last.obj] = nFiles
    /\ fcloses[nFiles] = 1 /\ Holders(nFiles) = {}
    /\ last.fr \in IoStatuses \ {"FR_OK"}
    /\ last.kind = fresult_to_error_code(last.fr) /\ last.kind = "IO_ERROR"

\* A handle that was open is re-opened in mode a+ and the seek fails.
C11_Witness ==
  /\ AppendSeekFailed(last) /\ last.arg = "a+" /\ last.was
  /\ ~is_open[last.obj] /\ fcloses[nFiles] = 1

\* C8: read, read_line, write (bytes and text), seek, tell, size and flush on a
\* handle that is not open return PermissionDenied, issue no engine call and
\* change nothing of the handles or of the engine's file objects.
C8_NotOpenIsRejected ==
  /\ [](last.op \in IoOps /\ ~last.was =>
          /\ last.kind = "PERMISSION_DENIED"
          /\ last.calls = <<>>
          /\ ~is_open[last.obj])
  /\ [][(last'.op \in IoOps /\ ~is_open[last'.obj]) => UNCHANGED hvars]_vars

\* A seek on a handle that was opened earlier and is no longer open.
C8_Witness ==
  /\ last.op = "seek" /\ ~last.was
  /\ file_[last.obj] # 0
  /\ last.kind = "PERMISSION_DENIED"

\* ------------------------------------------------------- filesystem session
\* The SDCard objects, the engine's mounts and the transport before an
\* operation.
SWorld ==
  [life |-> sLife, is_mounted |-> is_mounted, fs_type |-> fs_type, fs_ |-> fs_,
   has_dir |-> has_dir, current_path |-> current_path,
   nMounts |-> nMounts, unmounts |-> unmounts, deinits |-> deinits,
   owner |-> owner, spiUp |-> spiUp, io |-> <<>>,
   calls |-> <<>>, kind |-> "SUCCESS", fr |-> "FR_OK", msg |-> <<>>, val |-> <<>>,
   has_value |-> FALSE]

\* The filesystem kinds the engine reports in fs_.fs_type after a mount.
FsTypes == {"FS_FAT32"}

\* The failing statuses the engine gives f_mount.
MountFailures == {"FR_NOT_READY", "FR_NO_FILESYSTEM"}

\* k failing answers of f_mount in a row: the card is not ready until the
\* last of them, which gives any failing status.
FailingRuns(k) ==
  IF k = 0 THEN { <<>> }
  ELSE { [i \in 1..k |-> IF i < k THEN "FR_NOT_READY" ELSE f] : f \in MountFailures }

\* The engine's answers to the f_mount calls of one mount_filesystem: failures
\* up to the first FR_OK, or MountRetries failures.
MountScripts ==
  UNION { { f \o <<"FR_OK">> : f \in FailingRuns(k) } : k \in 0..(MountRetries - 1) }
    \cup FailingRuns(MountRetries)

\* SDCard::SDCard(SPIConfig)
SsConstruct(w, s) ==
  [w EXCEPT !.life[s] = "alive", !.is_mounted[s] = FALSE, !.fs_type[s] = "0",
            !.fs_[s] = 0, !.has_dir[s] = FALSE, !.current_path[s] = <<"/">>]

\* void SDCard::initialize_spi(): pins, spi_init, pico_fatfs_set_config
SsInitializeSpi(w) ==
  Call(Call([w EXCEPT !.spiUp = @ + 1], "spi_init", TRUE),
       "pico_fatfs_set_config", TRUE)

\* void SDCard::deinitialize_spi(); m is the mount whose teardown calls it
\* (0: none).
SsDeinitializeSpi(w, m) ==
  LET w1 == Call(w, "pico_fatfs_reboot_spi", TRUE)
      w2 == IF m \in MountIds THEN [w1 EXCEPT !.deinits[m] = @ + 1] ELSE w1
  IN Call([w2 EXCEPT !.spiUp = @ - 1], "spi_deinit", TRUE)

\* void SDCard::unmount_filesystem()
SsUnmountFilesystem(w, s) ==
  LET m == w.fs_[s]
      w1 == IF w.is_mounted[s]
            THEN Call([w EXCEPT !.unmounts[m] = @ + 1,
                                !.owner[m] = 0,
                                !.is_mounted[s] = FALSE], "f_unmount", TRUE)
            ELSE w
  IN Call(w1, "pico_fatfs_reboot_spi", TRUE)

\* if (is_mounted_) { unmount_filesystem(); deinitialize_spi(); }
SsTeardown(w, s) ==
  IF w.is_mounted[s]
  THEN SsDeinitializeSpi(SsUnmountFilesystem(w, s), w.fs_[s])
  ELSE w

\* A retry loop that does not reset the transport after a failed attempt.
RECURSIVE MountLoopNoReset(_, _, _, _, _)
MountLoopNoReset(w, s, i, script, ft) ==
  IF i >= MountRetries
  THEN RetFr(w, script[i], <<"mount failed, FRESULT: ", script[i]>>)
  ELSE LET fr == script[i + 1]
           w1 == Call(w, "f_mount", fr = "FR_OK")
       IN IF fr = "FR_OK"
          THEN LET m == w1.nMounts + 1
               IN RetOk([w1 EXCEPT !.nMounts = m, !.fs_[s] = m, !.owner[m] = s,
                                   !.fs_type[s] = ft, !.is_mounted[s] = TRUE])
          ELSE MountLoopNoReset(w1, s, i + 1, script, ft)

\* A retry loop that marks the session mounted whatever f_mount returned.
RECURSIVE MountLoopAlwaysMounted(_, _, _, _, _)
MountLoopAlwaysMounted(w, s, i, script, ft) ==
  IF i >= MountRetries
  THEN RetFr([w EXCEPT !.is_mounted[s] = TRUE], script[i],
             <<"mount failed, FRESULT: ", script[i]>>)
  ELSE LET fr == script[i + 1]
           w1 == Call(w, "f_mount", fr = "FR_OK")
       IN IF fr = "FR_OK"
          THEN LET m == w1.nMounts + 1
               IN RetOk([w1 EXCEPT !.nMounts = m, !.fs_[s] = m, !.owner[m] = s,
                                   !.fs_type[s] = ft, !.is_mounted[s] = TRUE])
          ELSE MountLoopAlwaysMounted(Call(w1, "pico_fatfs_reboot_spi", TRUE),
                                      s, i + 1, script, ft)

\* The loop of mount_filesystem from attempt i (0-based): script holds the
\* engine's answers, ft the filesystem kind it reports on success.
RECURSIVE MountLoop(_, _, _, _, _)
MountLoop(w, s, i, script, ft) ==
  IF i >= MountRetries
  THEN RetFr(w, script[i], <<"mount failed, FRESULT: ", script[i]>>)
  ELSE LET fr == script[i + 1]
           w1 == Call(w, "f_mount", fr = "FR_OK")
       IN IF fr = "FR_OK"
          THEN LET m == w1.nMounts + 1
               IN RetOk([w1 EXCEPT !.nMounts = m, !.fs_[s] = m, !.owner[m] = s,
                                   !.fs_type[s] = ft, !.is_mounted[s] = TRUE])
          ELSE MountLoop(Call(w1, "pico_fatfs_reboot_spi", TRUE),
                         s, i + 1, script, ft)

\* Result<void> SDCard::mount_filesystem()
SsMountFilesystem(w, s, script, ft) == MountLoop(w, s, 0, script, ft)

\* An initialize that does not shut the transport down when the mount fails.
SsInitializeLeavesSpiUp(w, s, script, ft) ==
  IF w.is_mounted[s] THEN RetErr(w, "SUCCESS", <<>>)
  ELSE SsMountFilesystem(SsInitializeSpi(w), s, script, ft)

\* An initialize that mounts again when the session is already mounted.
SsInitializeRemounts(w, s, script, ft) ==
  LET r == SsMountFilesystem(SsInitializeSpi(w), s, script, ft)
  IN IF is_error(r.kind) THEN SsDeinitializeSpi(r, 0) ELSE RetOk(r)

\* Result<void> SDCard::initialize()
SsInitialize(w, s, script, ft) ==
  IF w.is_mounted[s] THEN RetErr(w, "SUCCESS", <<>>)
  ELSE LET r == SsMountFilesystem(SsInitializeSpi(w), s, script, ft)
       IN IF is_error(r.kind) THEN SsDeinitializeSpi(r, 0) ELSE RetOk(r)

\* SDCard::~SDCard(); the members' storage ends with the object.
SsDestroy(w, s) ==
  [SsTeardown(w, s) EXCEPT !.life[s] = "dead", !.is_mounted[s] = FALSE,
                           !.fs_type[s] = "0", !.fs_[s] = 0,
                           !.has_dir[s] = FALSE, !.current_path[s] = <<>>]

\* The members a move takes from other (s) into this (d), and
\* other.is_mounted_ = false.
TakeFrom(w, d, s) ==
  [w EXCEPT !.fs_[d] = w.fs_[s],
            !.is_mounted[d] = w.is_mounted[s],
            !.fs_type[d] = w.fs_type[s],
            !.has_dir[d] = w.has_dir[s],
            !.has_dir[s] = FALSE,
            !.current_path[d] = w.current_path[s],
            !.current_path[s] = MovedFrom,
            !.owner = [m \in MountIds |-> IF w.owner[m] = s THEN d ELSE w.owner[m]],
            !.is_mounted[s] = FALSE]

\* A move constructor that leaves other.is_mounted_ set.
SsMoveConstructKeepsSource(w, d, s) ==
  [TakeFrom([w EXCEPT !.life[d] = "alive"], d, s) EXCEPT
     !.is_mounted[s] = w.is_mounted[s]]

\* SDCard::SDCard(SDCard&& other)
SsMoveConstruct(w, d, s) == TakeFrom([w EXCEPT !.life[d] = "alive"], d, s)

\* SDCard& SDCard::operator=(SDCard&& other)
SsMoveAssign(w, d, s) ==
  IF d # s THEN TakeFrom(SsTeardown(w, d), d, s) ELSE w

\* ------------------------------------------------------------ session actions
SSet(w, op, s, src, arg, was) ==
  /\ sLife' = w.life
  /\ is_mounted' = w.is_mounted
  /\ fs_type' = w.fs_type
  /\ fs_' = w.fs_
  /\ has_dir' = w.has_dir
  /\ current_path' = w.current_path
  /\ nMounts' = w.nMounts
  /\ unmounts' = w.unmounts
  /\ deinits' = w.deinits
  /\ owner' = w.owner
  /\ spiUp' = w.spiUp
  /\ last' = LastRec(op, s, src, arg, was, w)

\* An operation on the sessions with engine answers of any kind: the medium
\* is left out of account.
SCommit(w, op, s, src, arg, was) ==
  /\ \E x \in {w} : SSet(x, op, s, src, arg, was)
  /\ UNCHANGED <<hvars, evars>>

Live(s) == sLife[s] = "alive"

\* The engine's answers to an initialize: a mounted session asks for none.
InitializeScripts(s) ==
  IF is_mounted[s] THEN {<<"FR_OK">>} ELSE MountScripts
\* The filesystem kinds the engine can report to an initialize: it reports
\* one when a mount succeeds.
ReportedFsTypes(s, script) ==
  IF ~is_mounted[s] /\ script[Len(script)] = "FR_OK"
  THEN FsTypes ELSE {CHOOSE ft \in FsTypes : TRUE}

SConstruct(s) ==
  /\ sLife[s] = "unborn"
  /\ SCommit(SsConstruct(SWorld, s), "construct", s, 0, "", FALSE)

SDestroy(s) ==
  /\ Live(s)
  /\ SCommit(SsDestroy(SWorld, s), "destroy", s, 0, "", is_mounted[s])

SMoveConstruct(d, s) ==
  /\ sLife[d] = "unborn" /\ Live(s)
  /\ SCommit(SsMoveConstruct(SWorld, d, s), "move_construct", d, s, "", is_mounted[s])

SMoveAssign(d, s) ==
  /\ Live(d) /\ Live(s)
  /\ SCommit(SsMoveAssign(SWorld, d, s), "move_assign", d, s, "", is_mounted[s])

SInitialize(s) ==
  /\ Live(s)
  /\ \E script \in InitializeScripts(s) :
     \E ft \in ReportedFsTypes(s, script) :
       /\ nMounts < MaxMounts \/ is_mounted[s] \/ script[Len(script)] # "FR_OK"
       /\ SCommit(SsInitialize(SWorld, s, script, ft), "initialize", s, 0, "",
                  is_mounted[s])

SessionLifeNext ==
  \/ \E s \in Sessions : SConstruct(s)
  \/ \E s \in Sessions : SDestroy(s)
  \/ \E d \in Sessions, s \in Sessions : SMoveConstruct(d, s)
  \/ \E d \in Sessions, s \in Sessions : SMoveAssign(d, s)
  \/ \E s \in Sessions : SInitialize(s)

\* The lifetime of the sessions (construction, initialize, moves,
\* destruction), against an engine whose mounts may fail.
SessionSpec == Init /\ [][SessionLifeNext]_vars

\* --------------------------------------------------------- session properties
\* The live sessions that hold mount m as mounted.
MountHolders(m) == {s \in Sessions : Live(s) /\ is_mounted[s] /\ fs_[s] = m}

Fn(calls) == [i \in DOMAIN calls |-> calls[i].fn]

\* The calls of a teardown: unmount_filesystem(), then deinitialize_spi().
TeardownCalls ==
  <<"f_unmount", "pico_fatfs_reboot_spi", "pico_fatfs_reboot_spi", "spi_deinit">>

\* The f_mount calls among an operation's calls, and whether all failed.
MountCalls(calls) == {i \in DOMAIN calls : calls[i].fn = "f_mount"}
AllMountsFailed(rec) ==
  /\ MountCalls(rec.calls) # {}
  /\ \A i \in MountCalls(rec.calls) : ~rec.calls[i].ok

\* C2: every mount made by a successful initialize is held as mounted by
\* exactly one live session until its teardown, which issues the engine
\* unmount and the transport shutdown once each, and by none after; no mount
\* is unmounted or shut down twice; destroying a session that is not mounted
\* (never mounted, or moved from) issues no call.
C2_TeardownExactlyOnce ==
  /\ \A m \in MountIds : unmounts[m] <= 1 /\ deinits[m] <= 1
  /\ \A m \in 1..nMounts :
       /\ unmounts[m] = deinits[m]
       /\ unmounts[m] = 0 <=> Cardinality(MountHolders(m)) = 1
       /\ unmounts[m] = 1 <=> MountHolders(m) = {}
  /\ last.op = "destroy" =>
       Fn(last.calls) = IF last.was THEN TeardownCalls ELSE <<>>

\* A moved-from session is destroyed after the session it was moved into has
\* torn the mount down by its own destruction.
C2_Witness ==
  /\ last.op = "destroy" /\ ~last.was
  /\ nMounts = 1 /\ unmounts[1] = 1 /\ deinits[1] = 1
  /\ \A s \in Sessions : sLife[s] = "dead"

\* C4: an initialize whose mount attempts all fail returns an error, leaves
\* the session unmounted, has shut down the transport it brought up (one
\* spi_init, then one spi_deinit as its last call), and changes nothing of the
\* sessions, the mounts or the transport balance.
C4_FailedInitializeReverses ==
  /\ [](last.op = "initialize" /\ ~last.was /\ AllMountsFailed(last) =>
          /\ is_error(last.kind)
          /\ ~is_mounted[last.obj]
          /\ CountCalls(last.calls, "spi_init") = 1
          /\ CountCalls(last.calls, "spi_deinit") = 1
          /\ last.calls[1].fn = "spi_init"
          /\ last.calls[Len(last.calls)].fn = "spi_deinit")
  /\ [][(last'.op = "initialize" /\ ~is_mounted[last'.obj] /\ AllMountsFailed(last'))
          => UNCHANGED svars]_vars

\* A failed initialize on a session while another session holds a mount.
C4_Witness ==
  /\ last.op = "initialize" /\ ~last.was /\ AllMountsFailed(last)
  /\ spiUp = 1
  /\ \E s \in Sessions : s # last.obj /\ Live(s) /\ is_mounted[s]

\* C5: an initialize on an unmounted session brings the transport up first,
\* then issues between 1 and MountRetries f_mount calls, every one but the
\* last failing and every failing one followed at once by a transport reset;
\* it ends Mounted with success right after an f_mount that returned FR_OK, or
\* Unmounted with an error after MountRetries failures.
C5_BoundedMountRetry ==
  (last.op = "initialize" /\ ~last.was) =>
    LET c == last.calls
        mc == MountCalls(c)
        final == CHOOSE i \in mc : \A j \in mc : j <= i
    IN /\ Len(c) >= 3
       /\ c[1].fn = "spi_init" /\ c[2].fn = "pico_fatfs_set_config"
       /\ mc # {} /\ Cardinality(mc) <= MountRetries
       /\ \A i \in mc : i > 2
       /\ \A i \in mc : i # final => ~c[i].ok
       /\ \A i \in mc : ~c[i].ok =>
            i < Len(c) /\ c[i + 1].fn = "pico_fatfs_reboot_spi"
       /\ \A i \in mc : i # final => c[i + 2].fn = "f_mount"
       /\ IF c[final].ok
          THEN final = Len(c) /\ is_mounted[last.obj] /\ is_ok(last.kind)
          ELSE Cardinality(mc) = MountRetries /\ ~is_mounted[last.obj]
               /\ is_error(last.kind)

\* An initialize that mounted at its last permitted attempt.
C5_Witness ==
  /\ last.op = "initialize" /\ ~last.was
  /\ Cardinality(MountCalls(last.calls)) = MountRetries
  /\ is_mounted[last.obj] /\ is_ok(last.kind)

\* C6: when all mount attempts fail, the error kind is MountFailed and the
\* message carries the native status of the last attempt.
C6_MountFailedKind ==
  (last.op = "initialize" /\ ~last.was /\ AllMountsFailed(last)) =>
    /\ last.kind = "MOUNT_FAILED"
    /\ last.msg = <<"mount failed, FRESULT: ", last.fr>>

Word(n) == <<(n \div 65536) % 65536, n % 65536>>

\* The 32-bit product of two 16-bit halves, as a word.
MulHalf(x, y) ==
  LET p1 == (x \div 256) * y
      p0 == (x % 256) * y
      low == (p1 % 256) * 256 + p0
  IN <<((p1 \div 256) + (low \div 65536)) % 65536, low % 65536>>

\* a * b of two size_t values.
MulWord(a, b) ==
  LET lo == MulHalf(a[2], b[2])
      cross == (MulHalf(a[1], b[2])[2] + MulHalf(a[2], b[1])[2]) % 65536
  IN <<(lo[1] + cross) % 65536, lo[2]>>

\* a - k of a size_t value and a small k, wrapping below zero.
SubWord(a, k) ==
  IF a[2] >= k THEN <<a[1], a[2] - k>>
  ELSE <<(a[1] + 65535) % 65536, a[2] + 65536 - k>>
\* size_t bytes_per_sector = 512
BytesPerSector == 512

NotMounted(w) == RetErr(w, "MOUNT_FAILED", <<"not mounted">>)

\* The order of char in std::string comparison.
CharCode(c) ==
  CASE c = "." -> 46 [] c = "/" -> 47 [] c = "a" -> 97 [] c = "b" -> 98
    [] c = "x" -> 120 [] c = "y" -> 121 [] c = "z" -> 122 [] OTHER -> 0

\* std::string operator<
RECURSIVE StrLess(_, _)
StrLess(a, b) ==
  IF b = <<>> THEN FALSE
  ELSE IF a = <<>> THEN TRUE
  ELSE IF CharCode(Head(a)) # CharCode(Head(b))
       THEN CharCode(Head(a)) < CharCode(Head(b))
       ELSE StrLess(Tail(a), Tail(b))

\* std::string SDCard::join_path(dir, file)
join_path(dir, file) ==
  IF dir = <<>> THEN normalize_path(file)
  ELSE IF file = <<>> THEN normalize_path(dir)
  ELSE normalize_path((IF dir[Len(dir)] # "/" THEN dir \o <<"/">> ELSE dir) \o file)

\* std::string SDCard::get_filesystem_type() const
SsGetFilesystemType(w, s) ==
  IF ~w.is_mounted[s] THEN [RetOk(w) EXCEPT !.val = "unmounted"]
  ELSE [RetOk(w) EXCEPT !.val =
          CASE w.fs_type[s] = "FS_FAT12" -> "FAT12"
            [] w.fs_type[s] = "FS_FAT16" -> "FAT16"
            [] w.fs_type[s] = "FS_FAT32" -> "FAT32"
            [] w.fs_type[s] = "FS_EXFAT" -> "exFAT"
            [] OTHER -> "unknown"]

\* Result<pair<size_t, size_t>> SDCard::get_capacity() const; the engine
\* answers f_getfree with fr, free_clusters and the geometry n_fatent, csize.
SsGetCapacity(w, s, fr, free_clusters, n_fatent, csize) ==
  IF ~w.is_mounted[s] THEN NotMounted(w)
  ELSE LET w1 == Call(w, "f_getfree", fr = "FR_OK")
       IN IF fr # "FR_OK" THEN RetFr(w1, fr, <<"get capacity failed">>)
          ELSE LET total_clusters == SubWord(Word(n_fatent), 2)
                   sectors_per_cluster == Word(csize)
                   bytes_per_sector == Word(BytesPerSector)
                   total_bytes ==
                     MulWord(MulWord(total_clusters, sectors_per_cluster),
                             bytes_per_sector)
                   free_bytes ==
                     MulWord(MulWord(Word(free_clusters), sectors_per_cluster),
                             bytes_per_sector)
               IN [RetOk(w1) EXCEPT !.val = <<total_bytes, free_bytes>>]

\* An open_directory that records the path before the engine opened it.
SsOpenDirectorySetsPathFirst(w, s, path, fr) ==
  IF ~w.is_mounted[s] THEN NotMounted(w)
  ELSE LET np == normalize_path(path)
           w1 == IF w.has_dir[s]
                 THEN Call([w EXCEPT !.has_dir[s] = FALSE], "f_closedir", TRUE)
                 ELSE w
           w2 == Call([w1 EXCEPT !.has_dir[s] = TRUE, !.current_path[s] = np],
                      "f_opendir", fr = "FR_OK")
       IN IF fr # "FR_OK"
          THEN RetFr([w2 EXCEPT !.has_dir[s] = FALSE], fr, <<"open directory failed">>)
          ELSE RetOk([w2 EXCEPT !.current_path[s] = np])

\* Result<void> SDCard::open_directory(path)
SsOpenDirectory(w, s, path, fr) ==
  IF ~w.is_mounted[s] THEN NotMounted(w)
  ELSE LET np == normalize_path(path)
           w1 == IF w.has_dir[s]
                 THEN Call([w EXCEPT !.has_dir[s] = FALSE], "f_closedir", TRUE)
                 ELSE w
           w2 == Call([w1 EXCEPT !.has_dir[s] = TRUE], "f_opendir", fr = "FR_OK")
       IN IF fr # "FR_OK"
          THEN RetFr([w2 EXCEPT !.has_dir[s] = FALSE], fr, <<"open directory failed">>)
          ELSE RetOk([w2 EXCEPT !.current_path[s] = np])

\* if (fname[0] == '.' && (fname[1] == 0 || (fname[1] == '.' && fname[2] == 0)))
IsDotEntry(name) == name = <<".">> \/ name = <<".", ".">>

\* The loop of list_directory over the engine's answers to f_readdir, each
\* [name, attrib, size]: an entry, the end of the directory (an empty name,
\* fname[0] == 0) or a failing status (the name <<"err">>); out collects the
\* FileInfo records.
RECURSIVE ReadDirLoop(_, _, _, _)
ReadDirLoop(w, target, answers, out) ==
  LET a == Head(answers)
      w1 == Call(w, "f_readdir", a.name # <<"err">>)
  IN IF a.name = <<"err">> \/ a.name = <<>> THEN [w1 EXCEPT !.val = out]
     ELSE IF IsDotEntry(a.name) THEN ReadDirLoop(w1, target, Tail(answers), out)
     ELSE ReadDirLoop(w1, target, Tail(answers),
            Append(out, [name |-> a.name,
                         full_path |-> join_path(target, a.name),
                         size |-> a.size,
                         is_directory |-> "AM_DIR" \in a.attrib,
                         attributes |-> a.attrib]))

\* A comparison by name alone.
FileInfoLessByName(a, b) == StrLess(a.name, b.name)

\* The comparison list_directory sorts by: directories first, then by name.
FileInfoLess(a, b) ==
  IF a.is_directory # b.is_directory THEN a.is_directory
  ELSE StrLess(a.name, b.name)

\* std::sort(files.begin(), files.end(), FileInfoLess)
RECURSIVE InsertSorted(_, _)
InsertSorted(sorted, x) ==
  IF sorted = <<>> THEN <<x>>
  ELSE IF FileInfoLess(x, Head(sorted)) THEN <<x>> \o sorted
  ELSE <<Head(sorted)>> \o InsertSorted(Tail(sorted), x)

RECURSIVE SortFiles(_)
SortFiles(files) ==
  IF files = <<>> THEN <<>>
  ELSE InsertSorted(SortFiles(SubSeq(files, 1, Len(files) - 1)), files[Len(files)])

\* Result<vector<FileInfo>> SDCard::list_directory(path)
SsListDirectory(w, s, path, fr, answers) ==
  IF ~w.is_mounted[s] THEN NotMounted(w)
  ELSE LET target == IF path = <<>> THEN w.current_path[s] ELSE normalize_path(path)
           w1 == Call(w, "f_opendir", fr = "FR_OK")
       IN IF fr # "FR_OK" THEN RetFr(w1, fr, <<"open directory failed">>)
          ELSE LET w2 == Call(ReadDirLoop(w1, target, answers, <<>>),
                              "f_closedir", TRUE)
               IN [RetOk(w2) EXCEPT !.val = SortFiles(w2.val)]

\* The path operations that pass one normalized path to one engine call:
\* create_directory (f_mkdir), remove_directory and delete_file (f_unlink).
SsPathCall(w, s, fn, path, fr, text) ==
  IF ~w.is_mounted[s] THEN NotMounted(w)
  ELSE LET w1 == CallIo(w, fn, fr = "FR_OK", [path |-> path])
       IN IF fr # "FR_OK" THEN RetFr(w1, fr, <<text>>) ELSE RetOk(w1)

\* Result<void> SDCard::create_directory(path)
SsCreateDirectory(w, s, path, fr) ==
  SsPathCall(w, s, "f_mkdir", normalize_path(path), fr, "create directory failed")

\* Result<void> SDCard::remove_directory(path)
SsRemoveDirectory(w, s, path, fr) ==
  SsPathCall(w, s, "f_unlink", normalize_path(path), fr, "remove directory failed")

\* Result<void> SDCard::delete_file(path)
SsDeleteFile(w, s, path, fr) ==
  SsPathCall(w, s, "f_unlink", normalize_path(path), fr, "delete file failed")

\* A rename that does not check is_mounted_.
SsRenameUnchecked(w, s, old_path, new_path, fr) ==
  LET w1 == Call(w, "f_rename", fr = "FR_OK")
  IN IF fr # "FR_OK" THEN RetFr(w1, fr, <<"rename failed">>) ELSE RetOk(w1)

\* Result<void> SDCard::rename(old_path, new_path)
SsRename(w, s, old_path, new_path, fr) ==
  IF ~w.is_mounted[s] THEN NotMounted(w)
  ELSE LET w1 == Call(w, "f_rename", fr = "FR_OK")
       IN IF fr # "FR_OK" THEN RetFr(w1, fr, <<"rename failed">>) ELSE RetOk(w1)

\* bool SDCard::file_exists(path) const
SsFileExistsIgnoresStat(w, s, path, fr) ==
  IF ~w.is_mounted[s] THEN [RetOk(w) EXCEPT !.val = FALSE]
  ELSE [RetOk(CallIo(w, "f_stat", fr = "FR_OK", [path |-> normalize_path(path)]))
          EXCEPT !.val = TRUE]

SsFileExists(w, s, path, fr) ==
  IF ~w.is_mounted[s] THEN [RetOk(w) EXCEPT !.val = FALSE]
  ELSE [RetOk(CallIo(w, "f_stat", fr = "FR_OK", [path |-> normalize_path(path)]))
          EXCEPT !.val = (fr = "FR_OK")]

\* Result<FileInfo> SDCard::get_file_info(path) const; fno is the engine's
\* answer to f_stat.
SsGetFileInfo(w, s, path, fr, fno) ==
  IF ~w.is_mounted[s] THEN NotMounted(w)
  ELSE LET np == normalize_path(path)
           w1 == Call(w, "f_stat", fr = "FR_OK")
       IN IF fr # "FR_OK" THEN RetFr(w1, fr, <<"get file info failed">>)
          ELSE [RetOk(w1) EXCEPT !.val =
                  [name |-> fno.name, full_path |-> np, size |-> fno.size,
                   is_directory |-> "AM_DIR" \in fno.attrib,
                   attributes |-> fno.attrib]]

\* Result<vector<uint8_t>> SDCard::read_file(path) const; got is the bytes
\* the engine reads into the buffer of f_size bytes (bytes_read of them), to
\* which the buffer is then resized.
SsReadFile(w, s, path, frOpen, frRead, got) ==
  IF ~w.is_mounted[s] THEN NotMounted(w)
  ELSE LET w1 == CallIo(w, "f_open", frOpen = "FR_OK",
                        [path |-> normalize_path(path), flags |-> {"FA_READ"}])
       IN IF frOpen # "FR_OK" THEN RetFr(w1, frOpen, <<"open file failed">>)
          ELSE LET w2 == CallIo(CallIo(CallIo(w1, "f_size", TRUE, <<>>),
                                       "f_read", frRead = "FR_OK",
                                       [at_size |-> TRUE, bytes |-> got]),
                                "f_close", TRUE, <<>>)
               IN IF frRead # "FR_OK" THEN RetFr(w2, frRead, <<"read file failed">>)
                  ELSE [RetOk(w2) EXCEPT !.val = got]

\* A read_file_chunk that returns the seek error without closing the file.
SsReadFileChunkLeaksOnSeekFailure(w, s, path, offset, size, frOpen, frSeek, frRead, got) ==
  IF ~w.is_mounted[s] THEN NotMounted(w)
  ELSE LET w1 == Call(w, "f_open", frOpen = "FR_OK")
       IN IF frOpen # "FR_OK" THEN RetFr(w1, frOpen, <<"open file failed">>)
          ELSE LET w2 == Call(w1, "f_lseek", frSeek = "FR_OK")
               IN IF frSeek # "FR_OK"
                  THEN RetFr(w2, frSeek, <<"seek failed">>)
                  ELSE LET w3 == Call(Call(w2, "f_read", frRead = "FR_OK"),
                                      "f_close", TRUE)
                       IN IF frRead # "FR_OK"
                          THEN RetFr(w3, frRead, <<"read file failed">>)
                          ELSE [RetOk(w3) EXCEPT !.val = got]

\* Result<vector<uint8_t>> SDCard::read_file_chunk(path, offset, size) const
SsReadFileChunk(w, s, path, offset, size, frOpen, frSeek, frRead, got) ==
  IF ~w.is_mounted[s] THEN NotMounted(w)
  ELSE LET w1 == Call(w, "f_open", frOpen = "FR_OK")
       IN IF frOpen # "FR_OK" THEN RetFr(w1, frOpen, <<"open file failed">>)
          ELSE LET w2 == Call(w1, "f_lseek", frSeek = "FR_OK")
               IN IF frSeek # "FR_OK"
                  THEN RetFr(Call(w2, "f_close", TRUE), frSeek, <<"seek failed">>)
                  ELSE LET w3 == Call(Call(w2, "f_read", frRead = "FR_OK"),
                                      "f_close", TRUE)
                       IN IF frRead # "FR_OK"
                          THEN RetFr(w3, frRead, <<"read file failed">>)
                          ELSE [RetOk(w3) EXCEPT !.val = got]

\* A write_file that does not compare bytes_written with data.size().
SsWriteFileAcceptsShortWrite(w, s, path, data, append, frOpen, frSeek, frWrite, put, frClose) ==
  IF ~w.is_mounted[s] THEN NotMounted(w)
  ELSE LET w1 == Call(w, "f_open", frOpen = "FR_OK")
       IN IF frOpen # "FR_OK" THEN RetFr(w1, frOpen, <<"open file failed">>)
          ELSE LET w2 == IF append
                         THEN Call(Call(w1, "f_size", TRUE), "f_lseek",
                                   frSeek = "FR_OK")
                         ELSE w1
               IN IF append /\ frSeek # "FR_OK"
                  THEN RetFr(Call(w2, "f_close", TRUE), frSeek, <<"seek failed">>)
                  ELSE LET w3 == Call(CallCount(w2, "f_write", frWrite = "FR_OK",
                                                Len(data), put),
                                      "f_close", frClose = "FR_OK")
                       IN IF frWrite # "FR_OK"
                          THEN RetFr(w3, frWrite, <<"write file failed">>)
                          ELSE RetOk(w3)

\* A write_file that opens without truncating when it does not append.
SsWriteFileNeverTruncates(w, s, path, data, append, frOpen, frSeek, frWrite, put, frClose) ==
  IF ~w.is_mounted[s] THEN NotMounted(w)
  ELSE LET mode == IF append THEN {"FA_WRITE", "FA_OPEN_ALWAYS"}
                   ELSE {"FA_WRITE", "FA_OPEN_ALWAYS"}
           w1 == CallIo(w, "f_open", frOpen = "FR_OK",
                        [path |-> normalize_path(path), flags |-> mode])
       IN IF frOpen # "FR_OK" THEN RetFr(w1, frOpen, <<"open file failed">>)
          ELSE LET w2 == IF append
                         THEN CallIo(CallIo(w1, "f_size", TRUE, <<>>), "f_lseek",
                                     frSeek = "FR_OK", [at_size |-> TRUE])
                         ELSE w1
               IN IF append /\ frSeek # "FR_OK"
                  THEN RetFr(CallIo(w2, "f_close", TRUE, <<>>), frSeek,
                             <<"seek failed">>)
                  ELSE LET wr == CallCount(w2, "f_write", frWrite = "FR_OK",
                                           Len(data), put)
                           w3 == CallIo([wr EXCEPT !.io = Append(@,
                                           IoRec("f_write", frWrite = "FR_OK",
                                                 [bytes |-> data, n |-> put]))],
                                        "f_close", frClose = "FR_OK", <<>>)
                       IN IF frWrite # "FR_OK"
                          THEN RetFr(w3, frWrite, <<"write file failed">>)
                          ELSE IF put # Len(data)
                          THEN RetErr(w3, "IO_ERROR", <<"incomplete write">>)
                          ELSE RetOk(w3)

\* A write_file that appends without moving to the end of the file.
SsWriteFileAppendsWithoutSeek(w, s, path, data, append, frOpen, frSeek, frWrite, put, frClose) ==
  IF ~w.is_mounted[s] THEN NotMounted(w)
  ELSE LET mode == IF append THEN {"FA_WRITE", "FA_OPEN_ALWAYS"}
                   ELSE {"FA_WRITE", "FA_CREATE_ALWAYS"}
           w1 == CallIo(w, "f_open", frOpen = "FR_OK",
                        [path |-> normalize_path(path), flags |-> mode])
       IN IF frOpen # "FR_OK" THEN RetFr(w1, frOpen, <<"open file failed">>)
          ELSE LET w2 == w1
               IN IF FALSE
                  THEN RetFr(CallIo(w2, "f_close", TRUE, <<>>), frSeek,
                             <<"seek failed">>)
                  ELSE LET wr == CallCount(w2, "f_write", frWrite = "FR_OK",
                                           Len(data), put)
                           w3 == CallIo([wr EXCEPT !.io = Append(@,
                                           IoRec("f_write", frWrite = "FR_OK",
                                                 [bytes |-> data, n |-> put]))],
                                        "f_close", frClose = "FR_OK", <<>>)
                       IN IF frWrite # "FR_OK"
                          THEN RetFr(w3, frWrite, <<"write file failed">>)
                          ELSE IF put # Len(data)
                          THEN RetErr(w3, "IO_ERROR", <<"incomplete write">>)
                          ELSE RetOk(w3)

\* Result<void> SDCard::write_file(path, data, append); the engine reports
\* put bytes written and answers the last f_close with frClose, which the
\* function does not read.
SsWriteFile(w, s, path, data, append, frOpen, frSeek, frWrite, put, frClose) ==
  IF ~w.is_mounted[s] THEN NotMounted(w)
  ELSE LET mode == IF append THEN {"FA_WRITE", "FA_OPEN_ALWAYS"}
                   ELSE {"FA_WRITE", "FA_CREATE_ALWAYS"}
           w1 == CallIo(w, "f_open", frOpen = "FR_OK",
                        [path |-> normalize_path(path), flags |-> mode])
       IN IF frOpen # "FR_OK" THEN RetFr(w1, frOpen, <<"open file failed">>)
          ELSE LET w2 == IF append
                         THEN CallIo(CallIo(w1, "f_size", TRUE, <<>>), "f_lseek",
                                     frSeek = "FR_OK", [at_size |-> TRUE])
                         ELSE w1
               IN IF append /\ frSeek # "FR_OK"
                  THEN RetFr(CallIo(w2, "f_close", TRUE, <<>>), frSeek,
                             <<"seek failed">>)
                  ELSE LET wr == CallCount(w2, "f_write", frWrite = "FR_OK",
                                           Len(data), put)
                           w3 == CallIo([wr EXCEPT !.io = Append(@,
                                           IoRec("f_write", frWrite = "FR_OK",
                                                 [bytes |-> data, n |-> put]))],
                                        "f_close", frClose = "FR_OK", <<>>)
                       IN IF frWrite # "FR_OK"
                          THEN RetFr(w3, frWrite, <<"write file failed">>)
                          ELSE IF put # Len(data)
                          THEN RetErr(w3, "IO_ERROR", <<"incomplete write">>)
                          ELSE RetOk(w3)

\* Result<void> SDCard::write_text_file(path, content, append)
SsWriteTextFile(w, s, path, content, append, frOpen, frSeek, frWrite, put, frClose) ==
  SsWriteFile(w, s, path, TextBytes(content), append, frOpen, frSeek, frWrite, put,
              frClose)

\* A copy_file that writes the target whatever the read returned.
SsCopyFileIgnoresReadError(w, s, src_path, dst_path, data, rOpen, rRead, got, wOpen, wWrite, put) ==
  LET r == SsReadFile(w, s, src_path, rOpen, rRead, SubSeq(data, 1, got))
      x == SsWriteFile(r, s, dst_path, IF is_error(r.kind) THEN <<>> ELSE r.val,
                       FALSE, wOpen, "FR_OK", wWrite, put, "FR_OK")
  IN IF is_error(x.kind)
     THEN [x EXCEPT !.msg = <<"copy failed, writing target: ">> \o x.msg,
                    !.val = <<>>]
     ELSE [RetOk(x) EXCEPT !.val = <<>>]

\* Result<void> SDCard::copy_file(src_path, dst_path); data is what the
\* source holds, the r-statuses answer the read and the w-statuses the write,
\* whose f_close is taken to succeed.
SsCopyFile(w, s, src_path, dst_path, data, rOpen, rRead, got, wOpen, wWrite, put) ==
  LET r == SsReadFile(w, s, src_path, rOpen, rRead, SubSeq(data, 1, got))
  IN IF is_error(r.kind)
     THEN [r EXCEPT !.msg = <<"copy failed, reading source: ">> \o r.msg]
     ELSE LET x == SsWriteFile(r, s, dst_path, r.val, FALSE,
                               wOpen, "FR_OK", wWrite, put, "FR_OK")
          IN IF is_error(x.kind)
             THEN [x EXCEPT !.msg = <<"copy failed, writing target: ">> \o x.msg,
                            !.val = <<>>]
             ELSE [RetOk(x) EXCEPT !.val = <<>>]

\* A sync that answers without asking the engine.
SsSyncSkipsEngine(w, s, fr) ==
  IF ~w.is_mounted[s] THEN NotMounted(w) ELSE RetOk(w)

\* Result<void> SDCard::sync()
SsSync(w, s, fr) ==
  IF ~w.is_mounted[s] THEN NotMounted(w)
  ELSE LET w1 == CallIo(w, "f_sync", fr = "FR_OK", [id |-> NullObject])
       IN IF fr # "FR_OK" THEN RetFr(w1, fr, <<"sync failed">>) ELSE RetOk(w1)

\* The opt.fmt format() picks for a filesystem kind string.
FormatKind(fs_name) ==
  CASE fs_name = "FAT32" -> "FS_FAT32"
    [] fs_name = "FAT16" -> "FS_FAT16"
    [] fs_name = "exFAT" -> "FS_EXFAT"
    [] OTHER -> "FS_FAT32"

\* Result<void> SDCard::format(fs_type)
SsFormat(w, s, fs_name, fr) ==
  IF ~w.is_mounted[s] THEN NotMounted(w)
  ELSE LET w1 == Call(w, "f_mkfs", fr = "FR_OK")
       IN IF fr # "FR_OK"
          THEN [RetErr(w1, "FATFS_ERROR", <<"format failed: ", fr>>) EXCEPT !.fr = fr]
          ELSE RetOk(w1)

\* Result<FileHandle> SDCard::open_file(path, mode): the local handle t is
\* opened and, on success, moved into the returned Result (d), then destroyed.
SsOpenFile(w, t, d, path, mode, frOpen, frSeek) ==
  LET r == FhOpen(FhConstruct(w, t), t, path, mode, frOpen, frSeek)
  IN IF is_error(r.kind) THEN FhDestroy(r, t)
     ELSE RetOk(FhDestroy(FhMoveConstruct(r, d, t), t))

\* --------------------------------------------------- session operation actions
\* The paths callers pass to the session's operations.
CallerPaths == { <<"/", "b", "/">> }
\* Statuses the engine gives the calls of a session operation.
FsStatuses == {"FR_OK", "FR_NO_FILE"}

\* The answers the engine can give a session's call, and the arguments read
\* past the mounted check: a session that is not mounted returns before
\* either, so there is one way for the call to go.
SAnswers(s, set) == IF is_mounted[s] THEN set ELSE {CHOOSE x \in set : TRUE}

EndOfDir == [name |-> <<>>, attrib |-> {}, size |-> 0]
ReadDirError == [name |-> <<"err">>, attrib |-> {}, size |-> 0]
DirEntry(name, attrib, size) == [name |-> name, attrib |-> attrib, size |-> size]

\* The engine's answers to the f_readdir calls of one list_directory.
DirScripts ==
  { <<EndOfDir>>,
    <<DirEntry(<<"b">>, {}, 1), DirEntry(<<".">>, {"AM_DIR"}, 0),
      DirEntry(<<"a">>, {}, 2), DirEntry(<<"z">>, {"AM_DIR"}, 0), EndOfDir>>,
    <<DirEntry(<<".", "x">>, {"AM_HID"}, 1), ReadDirError>> }

\* The directories list_directory is asked for and the engine's answers: the
\* current directory (the empty path) or a named one.
ListInputs(s) ==
  IF ~is_mounted[s] THEN { <<<<>>, "FR_OK", <<EndOfDir>>>> }
  ELSE { <<path, "FR_NO_FILE", <<EndOfDir>>>> : path \in CallerPaths }
       \cup { <<path, "FR_OK", answers>> : path \in CallerPaths, answers \in DirScripts }
       \cup { <<<<>>, "FR_OK", <<DirEntry(<<"a">>, {}, 2), EndOfDir>>>> }

SGetFilesystemType(s) ==
  /\ Live(s)
  /\ SCommit(SsGetFilesystemType(SWorld, s), "get_filesystem_type", s, 0, "",
             is_mounted[s])

SGetCapacity(s) ==
  /\ Live(s)
  /\ \E fr \in SAnswers(s, FsStatuses) :
     \E free_clusters \in {3}, n_fatent \in {10}, csize \in {8} :
       SCommit(SsGetCapacity(SWorld, s, fr, free_clusters, n_fatent, csize),
               "get_capacity", s, 0, "", is_mounted[s])

SOpenDirectory(s) ==
  /\ Live(s)
  /\ \E path \in CallerPaths, fr \in SAnswers(s, FsStatuses) :
       SCommit(SsOpenDirectory(SWorld, s, path, fr), "open_directory", s, 0, path,
               is_mounted[s])

SListDirectory(s) ==
  /\ Live(s)
  /\ \E a \in ListInputs(s) :
       SCommit(SsListDirectory(SWorld, s, a[1], a[2], a[3]), "list_directory", s,
               0, [path |-> a[1], answers |-> a[3]], is_mounted[s])

SCreateDirectory(s) ==
  /\ Live(s)
  /\ \E path \in CallerPaths, fr \in SAnswers(s, FsStatuses) :
       SCommit(SsCreateDirectory(SWorld, s, path, fr), "create_directory", s, 0,
               "", is_mounted[s])

SRemoveDirectory(s) ==
  /\ Live(s)
  /\ \E path \in CallerPaths, fr \in SAnswers(s, FsStatuses) :
       SCommit(SsRemoveDirectory(SWorld, s, path, fr), "remove_directory", s, 0,
               "", is_mounted[s])

SDeleteFile(s) ==
  /\ Live(s)
  /\ \E path \in CallerPaths, fr \in SAnswers(s, FsStatuses) :
       SCommit(SsDeleteFile(SWorld, s, path, fr), "delete_file", s, 0, "",
               is_mounted[s])

SRename(s) ==
  /\ Live(s)
  /\ \E old_path \in CallerPaths, new_path \in CallerPaths, fr \in SAnswers(s, FsStatuses) :
       SCommit(SsRename(SWorld, s, old_path, new_path, fr), "rename", s, 0, "",
               is_mounted[s])

SFileExists(s) ==
  /\ Live(s)
  /\ \E path \in CallerPaths, fr \in SAnswers(s, FsStatuses) :
       SCommit(SsFileExists(SWorld, s, path, fr), "file_exists", s, 0, "",
               is_mounted[s])

SGetFileInfo(s) ==
  /\ Live(s)
  /\ \E path \in CallerPaths, fr \in SAnswers(s, FsStatuses) :
     \E fno \in IF fr = "FR_OK" THEN SAnswers(s, {DirEntry(<<"a">>, {}, 2),
                                                   DirEntry(<<"z">>, {"AM_DIR"}, 0)})
                ELSE {DirEntry(<<"a">>, {}, 2)} :
       SCommit(SsGetFileInfo(SWorld, s, path, fr, fno), "get_file_info", s, 0, "",
               is_mounted[s])

SReadFile(s) ==
  /\ Live(s)
  /\ \E path \in CallerPaths, frOpen \in SAnswers(s, FsStatuses) :
     \E frRead \in IF frOpen = "FR_OK" THEN SAnswers(s, IoStatuses) ELSE {"FR_OK"} :
     \E got \in IF frOpen = "FR_OK" /\ frRead = "FR_OK" /\ is_mounted[s]
                THEN {<<>>, <<"x">>} ELSE {<<>>} :
       SCommit(SsReadFile(SWorld, s, path, frOpen, frRead, got), "read_file", s, 0,
               "", is_mounted[s])

SReadFileChunk(s) ==
  /\ Live(s)
  /\ \E path \in CallerPaths, frOpen \in SAnswers(s, FsStatuses) :
     \E frSeek \in IF frOpen = "FR_OK" THEN SAnswers(s, IoStatuses) ELSE {"FR_OK"} :
     \E frRead \in IF frOpen = "FR_OK" /\ frSeek = "FR_OK"
                   THEN SAnswers(s, IoStatuses) ELSE {"FR_OK"} :
     \E got \in Transferred(1, IF frOpen = "FR_OK" /\ frSeek = "FR_OK"
                               THEN frRead ELSE "FR_DISK_ERR") :
       SCommit(SsReadFileChunk(SWorld, s, path, 1, 1, frOpen, frSeek, frRead, got),
               "read_file_chunk", s, 0, "", is_mounted[s])

\* The engine's answers to the calls of one write_file: the statuses of
\* f_open, f_lseek and f_write and the bytes reported written, of n.
WriteAnswers(s, n, append) ==
  IF ~is_mounted[s] THEN { <<"FR_OK", "FR_OK", "FR_OK", n>> }
  ELSE { <<"FR_NO_FILE", "FR_OK", "FR_OK", 0>> }
       \cup (IF append THEN { <<"FR_OK", "FR_DISK_ERR", "FR_OK", 0>> } ELSE {})
       \cup { <<"FR_OK", "FR_OK", "FR_DISK_ERR", 0>> }
       \cup { <<"FR_OK", "FR_OK", "FR_OK", put>> : put \in {n - 1, n} }

SWriteFile(s) ==
  /\ Live(s)
  /\ \E path \in CallerPaths, data \in Payloads, append \in SAnswers(s, BOOLEAN) :
     \E a \in WriteAnswers(s, Len(data), append) :
       SCommit(SsWriteFile(SWorld, s, path, data, append, a[1], a[2], a[3], a[4],
                          "FR_OK"),
               "write_file", s, 0, "", is_mounted[s])

SWriteTextFile(s) ==
  /\ Live(s)
  /\ \E path \in CallerPaths, content \in Texts, append \in SAnswers(s, BOOLEAN) :
     \E a \in WriteAnswers(s, Len(content), append) :
       SCommit(SsWriteTextFile(SWorld, s, path, content, append,
                               a[1], a[2], a[3], a[4], "FR_OK"),
               "write_text_file", s, 0, "", is_mounted[s])

SCopyFile(s) ==
  /\ Live(s)
  /\ \E src_path \in CallerPaths, dst_path \in CallerPaths, data \in Payloads :
     \E rOpen \in SAnswers(s, FsStatuses) :
     \E rRead \in IF rOpen = "FR_OK" THEN SAnswers(s, IoStatuses) ELSE {"FR_OK"} :
     \E got \in IF is_mounted[s] /\ rOpen = "FR_OK" /\ rRead = "FR_OK"
                THEN {Len(data)} ELSE {0} :
     \E a \in IF got > 0 THEN WriteAnswers(s, got, FALSE)
              ELSE { <<"FR_OK", "FR_OK", "FR_OK", 0>> } :
       SCommit(SsCopyFile(SWorld, s, src_path, dst_path, data, rOpen, rRead, got,
                          a[1], a[3], a[4]),
               "copy_file", s, 0, "", is_mounted[s])

SSync(s) ==
  /\ Live(s)
  /\ \E fr \in SAnswers(s, IoStatuses) :
       SCommit(SsSync(SWorld, s, fr), "sync", s, 0, "", is_mounted[s])

SFormat(s) ==
  /\ Live(s)
  /\ \E fs_name \in SAnswers(s, {"FAT32", "ext4"}), fr \in SAnswers(s, IoStatuses) :
       SCommit(SsFormat(SWorld, s, fs_name, fr), "format", s, 0, fs_name,
               is_mounted[s])

\* The engine has a volume registered: some session holds a mount.
VolumeMounted == \E m \in MountIds : owner[m] # 0

\* The statuses f_open can give open_file: with no volume mounted the engine
\* refuses every open with FR_NOT_ENABLED.
SessionOpenAnswers(mode) ==
  IF mode \in OpenModes /\ ~VolumeMounted THEN {"FR_NOT_ENABLED"}
  ELSE OpenAnswers(mode)

\* open_file: its local handle is the first handle not yet constructed, t, and
\* the handle it returns the next one, d.
SOpenFile(s) ==
  /\ Live(s)
  /\ \E t \in Handles, d \in Handles :
       /\ t < d /\ hLife[t] = "unborn" /\ hLife[d] = "unborn"
       /\ \A x \in Handles : hLife[x] = "unborn" /\ x # t => x >= d
       /\ \E mode \in {"r", "x"} :
          \E path \in CallerPaths, frOpen \in SessionOpenAnswers(mode) :
          \E frSeek \in SeekStatuses(mode, frOpen) :
            /\ nFiles < MaxFiles \/ frOpen # "FR_OK" \/ mode \notin OpenModes
            /\ LET w == SsOpenFile(HWorld, t, d, path, mode, frOpen, frSeek)
               IN /\ hLife' = w.life
                  /\ is_open' = w.is_open
                  /\ file_' = w.file_
                  /\ path_' = w.path_
                  /\ nFiles' = w.nFiles
                  /\ fcloses' = w.fcloses
                  /\ fkept' = w.fkept
                  /\ last' = LastRec("open_file", s, d, mode, is_mounted[s], w)
                  /\ UNCHANGED <<svars, evars>>

SessionOpsNext ==
  \/ \E s \in Sessions : SGetFilesystemType(s)
  \/ \E s \in Sessions : SGetCapacity(s)
  \/ \E s \in Sessions : SOpenDirectory(s)
  \/ \E s \in Sessions : SListDirectory(s)
  \/ \E s \in Sessions : SCreateDirectory(s)
  \/ \E s \in Sessions : SRemoveDirectory(s)
  \/ \E s \in Sessions : SFileExists(s)
  \/ \E s \in Sessions : SGetFileInfo(s)
  \/ \E s \in Sessions : SReadFile(s)
  \/ \E s \in Sessions : SReadFileChunk(s)
  \/ \E s \in Sessions : SWriteFile(s)
  \/ \E s \in Sessions : SWriteTextFile(s)
  \/ \E s \in Sessions : SDeleteFile(s)
  \/ \E s \in Sessions : SRename(s)
  \/ \E s \in Sessions : SCopyFile(s)
  \/ \E s \in Sessions : SSync(s)
  \/ \E s \in Sessions : SFormat(s)
  \/ \E s \in Sessions : SOpenFile(s)

\* The sessions' lifetime with their directory, file, capacity, sync and
\* format operations.
SessionOpsSpec == Init /\ [][SessionLifeNext \/ SessionOpsNext]_vars

\* --------------------------------------------- properties of session operations
\* The directory, file, capacity, sync and format operations of a session.
SessionOps ==
  { "get_filesystem_type", "get_capacity", "open_directory", "list_directory",
    "create_directory", "remove_directory", "file_exists", "get_file_info",
    "read_file", "read_file_chunk", "write_file", "write_text_file",
    "delete_file", "rename", "copy_file", "open_file", "sync", "format" }

\* C3: in every reachable state a session's is_mounted() is true if and only
\* if it holds a mount, that is an f_mount issued by initialize returned FR_OK
\* for it (or the mounted state was moved into it) and neither a teardown nor
\* a move away has happened since; it is false right after construction and
\* after a failed initialize, true after a successful one, and no directory,
\* file, capacity, sync or format operation changes it.
C3_MountedIffMountHeld ==
  /\ [](/\ \A s \in Sessions :
             is_mounted[s] <=> (Live(s) /\ \E m \in 1..nMounts : owner[m] = s)
        /\ last.op = "construct" => ~is_mounted[last.obj]
        /\ last.op = "initialize" /\ is_error(last.kind) => ~is_mounted[last.obj]
        /\ last.op = "initialize" /\ is_ok(last.kind) => is_mounted[last.obj])
  /\ [][last'.op \in SessionOps => is_mounted' = is_mounted]_vars

\* A mounted session has run a format that the engine accepted and is still
\* mounted, while another session failed to mount.
C3_Witness ==
  /\ last.op = "format" /\ is_ok(last.kind) /\ last.was
  /\ is_mounted[last.obj]
  /\ \E s \in Sessions : Live(s) /\ ~is_mounted[s]

\* The calls of a trace to fn that returned FR_OK.
OkCalls(calls, fn) ==
  Cardinality({i \in DOMAIN calls : calls[i].fn = fn /\ calls[i].ok})

\* The operations that open an engine file or directory object of their own.
OpeningOps ==
  { "read_file", "read_file_chunk", "write_file", "write_text_file", "copy_file",
    "list_directory" }

\* C13: in read_file, read_file_chunk, write_file (also through
\* write_text_file and copy_file) and list_directory, every f_open that
\* returned FR_OK is followed by one f_close, and every f_opendir that
\* returned FR_OK by one f_closedir, before the operation returns, whatever
\* the seek, read or write in between returned; a failed open is followed by
\* no close, and the close is the last call on the object.
C13_OpenedObjectsAreClosed ==
  last.op \in OpeningOps =>
    /\ CountCalls(last.calls, "f_close") = OkCalls(last.calls, "f_open")
    /\ CountCalls(last.calls, "f_closedir") = OkCalls(last.calls, "f_opendir")
    /\ \A i \in DOMAIN last.calls :
         (last.calls[i].fn \in {"f_open", "f_opendir"} /\ last.calls[i].ok) =>
           \E j \in (i + 1)..Len(last.calls) :
             /\ last.calls[j].fn = (IF last.calls[i].fn = "f_open"
                                    THEN "f_close" ELSE "f_closedir")
             /\ \A k \in (i + 1)..(j - 1) :
                  last.calls[k].fn \notin {"f_open", "f_opendir", "f_close", "f_closedir"}
             /\ j < Len(last.calls) => last.calls[j + 1].fn = "f_open"

\* A read_file_chunk whose f_open succeeded and whose f_lseek failed.
C13_Witness ==
  /\ last.op = "read_file_chunk" /\ last.was
  /\ \E i \in DOMAIN last.calls : last.calls[i] = [fn |-> "f_lseek", ok |-> FALSE]
  /\ last.calls[Len(last.calls)].fn = "f_close"

\* The operations that require a mounted session.
MountedOps ==
  { "get_capacity", "open_directory", "list_directory", "create_directory",
    "remove_directory", "get_file_info", "read_file", "read_file_chunk",
    "write_file", "write_text_file", "delete_file", "rename", "copy_file",
    "sync", "format" }

\* C14: on a session that is not mounted, get_capacity, open_directory,
\* list_directory, create_directory, remove_directory, get_file_info,
\* read_file, read_file_chunk, write_file, write_text_file, delete_file,
\* rename, copy_file, sync and format each return MountFailed, issue no engine
\* call and change nothing of the sessions, the mounts or the handles.
C14_UnmountedIsRejected ==
  /\ [](last.op \in MountedOps /\ ~last.was =>
          /\ last.kind = "MOUNT_FAILED"
          /\ last.calls = <<>>
          /\ ~is_mounted[last.obj])
  /\ [][(last'.op \in MountedOps /\ ~is_mounted[last'.obj]) =>
          UNCHANGED <<hvars, svars>>]_vars

\* A rename on a session whose initialize failed, while another session is
\* mounted.
C14_Witness ==
  /\ last.op = "rename" /\ ~last.was /\ last.kind = "MOUNT_FAILED"
  /\ \E s \in Sessions : is_mounted[s]

\* The f_write calls of a trace that returned FR_OK and reported fewer bytes
\* written than asked.
ShortWrites(calls) ==
  {i \in DOMAIN calls :
     calls[i].fn = "f_write" /\ calls[i].ok /\ calls[i].done < calls[i].asked}

\* The f_write calls of a trace that returned FR_OK and reported every byte
\* written.
FullWrites(calls) ==
  {i \in DOMAIN calls :
     calls[i].fn = "f_write" /\ calls[i].ok /\ calls[i].done = calls[i].asked}

\* C16: write_file (also through write_text_file) returns IoError whenever
\* f_write returns FR_OK and reports fewer bytes written than data.size(), and
\* returns success only if f_write returned FR_OK with bytes_written equal to
\* the length asked.
C16_ShortWriteIsIoError ==
  last.op \in {"write_file", "write_text_file"} =>
    /\ ShortWrites(last.calls) # {} => last.kind = "IO_ERROR"
    /\ is_ok(last.kind) => FullWrites(last.calls) # {} /\ ShortWrites(last.calls) = {}

\* A write_file of two bytes of which the engine reports one written.
C16_Witness ==
  /\ last.op = "write_file" /\ last.kind = "IO_ERROR"
  /\ \E i \in ShortWrites(last.calls) :
       last.calls[i].asked = 2 /\ last.calls[i].done = 1

\* C17: a write_file whose data does not fit the medium, which the engine
\* signals by returning FR_OK from f_write with fewer bytes written than
\* asked, returns an error of kind DiskFull.
C17_ShortWriteIsDiskFull ==
  (last.op \in {"write_file", "write_text_file"} /\ ShortWrites(last.calls) # {}) =>
    last.kind = "DISK_FULL"

\* ------------------------------------------- sessions and the handles they open
\* The sessions' lifetime, open_file, and the operations of the handles it
\* returns.
SessionHandleSpec ==
  Init /\ [][SessionLifeNext \/ (\E s \in Sessions : SOpenFile(s)) \/ HandleIoNext]_vars

MaxFileLen == 3

\* The bytes the files of the medium can hold together.
MediumBytes == 4

Min(a, b) == IF a < b THEN a ELSE b

\* The bytes the files in a set of paths hold.
RECURSIVE Stored(_, _)
Stored(files, paths) ==
  IF paths = {} THEN 0
  ELSE LET p == CHOOSE q \in paths : TRUE
       IN Len(files[p].bytes) + Stored(files, paths \ {p})

\* The engine's files and file objects before an operation; sane records that
\* every answer the operation was given is the one the engine gives.
EWorld == [disk |-> disk, fobj |-> fobj, synced |-> synced, sane |-> TRUE]

Insane(e) == [e EXCEPT !.sane = FALSE]

\* The bytes of its file a file object finds: an object opened for writing
\* finds what it has written, any other what the directory entry records.
Visible(e, o) ==
  LET bytes == e.disk[o.path].bytes
  IN IF "FA_WRITE" \in o.flags THEN bytes
     ELSE SubSeq(bytes, 1, Min(e.synced[o.path], Len(bytes)))

\* open(path, flags): fails on a missing file unless a create flag is given;
\* FA_CREATE_ALWAYS empties the file; the pointer starts at 0.
EngOpen(e, c) ==
  LET known == c.path \in DiskPaths
      there == known /\ e.disk[c.path].on
      okay == known /\ (there \/ c.flags \cap {"FA_CREATE_ALWAYS", "FA_OPEN_ALWAYS"} # {})
      bytes == IF there /\ "FA_CREATE_ALWAYS" \notin c.flags
               THEN e.disk[c.path].bytes ELSE <<>>
  IN IF c.ok # okay THEN Insane(e)
     ELSE IF ~okay THEN e
     ELSE [e EXCEPT !.disk[c.path] = [on |-> TRUE, bytes |-> bytes],
                    !.synced[c.path] = Min(@, Len(bytes)),
                    !.fobj[c.id] = [open |-> TRUE, path |-> c.path,
                                    flags |-> c.flags, fptr |-> 0]]

\* seek(handle, pos): sets the pointer, within the file.
EngSeek(e, c) ==
  LET o == e.fobj[c.id]
      size == Len(Visible(e, o))
      pos == IF c.at_size THEN size ELSE c.n
  IN IF ~o.open \/ ~c.ok \/ pos > size THEN Insane(e)
     ELSE [e EXCEPT !.fobj[c.id].fptr = pos]

\* write(handle, buf, n): stores at the pointer what the file and the medium
\* have room for, reports that count and advances the pointer.
EngWrite(e, c) ==
  LET o == e.fobj[c.id]
      old == e.disk[o.path].bytes
      free == MediumBytes - Stored(e.disk, DiskPaths)
      done == Min(Len(c.bytes),
                  Min(MaxFileLen - o.fptr, Len(old) - o.fptr + free))
  IN IF ~o.open \/ "FA_WRITE" \notin o.flags \/ ~c.ok \/ c.n # done THEN Insane(e)
     ELSE [e EXCEPT !.disk[o.path].bytes =
                      SubSeq(old, 1, o.fptr) \o SubSeq(c.bytes, 1, done)
                        \o SubSeq(old, o.fptr + done + 1, Len(old)),
                    !.fobj[c.id].fptr = o.fptr + done]

\* read(handle, buf, n): delivers the bytes from the pointer to the end of the
\* file, at most n, and advances the pointer.
EngRead(e, c) ==
  LET o == e.fobj[c.id]
      old == Visible(e, o)
      asked == IF c.at_size THEN Len(old) ELSE c.n
      got == SubSeq(old, o.fptr + 1, Min(Len(old), o.fptr + asked))
  IN IF ~o.open \/ "FA_READ" \notin o.flags \/ ~c.ok \/ c.bytes # got THEN Insane(e)
     ELSE [e EXCEPT !.fobj[c.id].fptr = o.fptr + Len(got)]

\* tell(handle)
EngTell(e, c) ==
  IF ~e.fobj[c.id].open \/ c.n # e.fobj[c.id].fptr THEN Insane(e) ELSE e

\* The directory entries once the pending writes of the file objects ids are
\* on the medium.
Flushed(e, ids) ==
  [p \in DiskPaths |->
     IF \E i \in ids : /\ e.fobj[i].open /\ e.fobj[i].path = p
                         /\ "FA_WRITE" \in e.fobj[i].flags
     THEN Len(e.disk[p].bytes) ELSE e.synced[p]]

\* close(handle): the object's pending writes reach the medium.
EngClose(e, c) ==
  IF ~e.fobj[c.id].open THEN Insane(e)
  ELSE [e EXCEPT !.synced = Flushed(e, {c.id}), !.fobj[c.id] = NoObject]

\* sync(handle_or_null): the pending writes of the handle's object, of every
\* object when the handle is null, reach the medium.
EngSync(e, c) ==
  IF ~c.ok \/ (c.id # NullObject /\ ~e.fobj[c.id].open) THEN Insane(e)
  ELSE [e EXCEPT !.synced =
          Flushed(e, IF c.id = NullObject THEN 0..MaxFiles ELSE {c.id})]

\* stat(path): finds the files that exist.
EngStat(e, c) ==
  IF c.ok # (c.path \in DiskPaths /\ e.disk[c.path].on) THEN Insane(e) ELSE e

\* unlink(path): removes a file that exists.
EngUnlink(e, c) ==
  LET there == c.path \in DiskPaths /\ e.disk[c.path].on
  IN IF c.ok # there THEN Insane(e)
     ELSE IF there THEN [e EXCEPT !.disk[c.path] = NoFile, !.synced[c.path] = 0]
     ELSE e

\* The engine serving one call.
EngCall(e, c) ==
  CASE c.fn = "f_open" -> EngOpen(e, c)
    [] c.fn = "f_lseek" -> EngSeek(e, c)
    [] c.fn = "f_write" -> EngWrite(e, c)
    [] c.fn = "f_read" -> EngRead(e, c)
    [] c.fn = "f_tell" -> EngTell(e, c)
    [] c.fn = "f_close" -> EngClose(e, c)
    [] c.fn = "f_sync" -> EngSync(e, c)
    [] c.fn = "f_stat" -> EngStat(e, c)
    [] c.fn = "f_unlink" -> EngUnlink(e, c)
    [] OTHER -> e

\* The engine serving the calls of an operation in issue order.
RECURSIVE Replay(_, _)
Replay(e, io) ==
  IF io = <<>> \/ ~e.sane THEN e ELSE Replay(EngCall(e, Head(io)), Tail(io))

\* The medium after an operation whose answers are the engine's own.
ECommit(w) ==
  \E e \in {Replay(EWorld, w.io)} :
    e.sane /\ disk' = e.disk /\ fobj' = e.fobj /\ synced' = e.synced

\* ------------------------------------------------- the sessions on a medium
\* What the callers write.
StorePayloads == { <<>>, <<"y", "x">> }

\* The request of a file operation, as the caller made it.
Request(path, data, append) == [path |-> path, data |-> data, append |-> append]

\* An operation of a session served by the engine.
SStore(w, op, s, req) ==
  /\ \E x \in {w} : ECommit(x) /\ SSet(x, op, s, 0, req, is_mounted[s])
  /\ UNCHANGED hvars

\* The answers the engine may give to the calls of one write_file of n bytes.
StoreWriteAnswers(s, n) ==
  SAnswers(s, { <<frOpen, "FR_OK", "FR_OK", put>> :
                  frOpen \in FsStatuses, put \in 0..n })

\* The contents the engine may deliver to a read.
StoreContents == { disk[p].bytes : p \in DiskPaths }

DWriteFile(s) ==
  /\ Live(s)
  /\ \E path \in RawPaths, data \in StorePayloads, append \in BOOLEAN :
     \E a \in StoreWriteAnswers(s, Len(data)) :
       SStore(SsWriteFile(SWorld, s, path, data, append, a[1], a[2], a[3], a[4],
                          "FR_OK"),
              "write_file", s, Request(path, data, append))

DWriteTextFile(s) ==
  /\ Live(s)
  /\ \E path \in RawPaths, content \in Texts, append \in BOOLEAN :
     \E a \in StoreWriteAnswers(s, Len(content)) :
       SStore(SsWriteTextFile(SWorld, s, path, content, append,
                              a[1], a[2], a[3], a[4], "FR_OK"),
              "write_text_file", s, Request(path, TextBytes(content), append))

DReadFile(s) ==
  /\ Live(s)
  /\ \E path \in RawPaths, frOpen \in SAnswers(s, FsStatuses) :
     \E got \in SAnswers(s, StoreContents) :
       SStore(SsReadFile(SWorld, s, path, frOpen, "FR_OK", got), "read_file", s,
              Request(path, <<>>, FALSE))

DFileExists(s) ==
  /\ Live(s)
  /\ \E path \in RawPaths, fr \in SAnswers(s, FsStatuses) :
       SStore(SsFileExists(SWorld, s, path, fr), "file_exists", s,
              Request(path, <<>>, FALSE))

DDeleteFile(s) ==
  /\ Live(s)
  /\ \E path \in RawPaths, fr \in SAnswers(s, FsStatuses) :
       SStore(SsDeleteFile(SWorld, s, path, fr), "delete_file", s,
              Request(path, <<>>, FALSE))

SessionStoreNext ==
  \/ \E s \in Sessions : SConstruct(s)
  \/ \E s \in Sessions : SInitialize(s)
  \/ \E s \in Sessions : DWriteFile(s)
  \/ \E s \in Sessions : DWriteTextFile(s)
  \/ \E s \in Sessions : DReadFile(s)
  \/ \E s \in Sessions : DFileExists(s)
  \/ \E s \in Sessions : DDeleteFile(s)

\* The sessions writing, reading, probing and deleting the files of a medium
\* whose engine answers every call by what the medium holds.
SessionStoreSpec == Init /\ [][SessionStoreNext]_vars

StoreOps == {"write_file", "write_text_file", "read_file", "file_exists", "delete_file"}
WriteOps == {"write_file", "write_text_file"}

\* The engine's name of the file a request is about.
Target(rec) == normalize_path(rec.arg.path)

\* C18: when a write_file(p, B, append = false) has succeeded, whatever p held
\* before, the read_file(p) that a mounted session makes next succeeds and
\* returns exactly B.
C18_WriteThenReadRoundTrip ==
  [][(/\ last.op = "write_file" /\ is_ok(last.kind) /\ ~last.arg.append
      /\ last'.op = "read_file" /\ last'.was
      /\ last'.arg.path = last.arg.path)
     => (is_ok(last'.kind) /\ last'.val = last.arg.data)]_vars

C18_Witness ==
  /\ last.op = "read_file" /\ is_ok(last.kind)
  /\ last.val = <<"y", "x">>
  /\ \A p \in DiskPaths : disk[p].on /\ Len(disk[p].bytes) > 0

\* C19: a successful write_file or write_text_file of B with append = true
\* leaves in p what p held before (nothing if p was absent) followed by B, and
\* a successful read_file(p) returns what p holds: successive appends read
\* back as their concatenation in call order.
C19_AppendConcatenates ==
  /\ [][(last'.op \in WriteOps /\ is_ok(last'.kind) /\ last'.arg.append)
        => disk'[Target(last')].bytes
             = disk[Target(last')].bytes \o last'.arg.data]_vars
  /\ [](last.op = "read_file" /\ is_ok(last.kind)
        => last.val = disk[Target(last)].bytes)

C19_Witness ==
  /\ last.op = "write_text_file" /\ is_ok(last.kind) /\ last.arg.append
  /\ Len(disk[Target(last)].bytes) > Len(last.arg.data)

\* C20: on a mounted session file_exists(p) is true only of a file the medium
\* holds, and a file comes to be held only by a write to its path; it is true
\* right after a successful write_file to p and false right after a successful
\* delete_file(p).
C20_FileExistsFollowsTheMedium ==
  /\ [](last.op = "file_exists" => (last.val => disk[Target(last)].on))
  /\ [][\A p \in DiskPaths :
          (disk'[p].on /\ ~disk[p].on)
          => (last'.op \in WriteOps /\ Target(last') = p)]_vars
  /\ [][(/\ last.op \in {"write_file", "delete_file"} /\ is_ok(last.kind)
         /\ last'.op = "file_exists" /\ last'.was
         /\ last'.arg.path = last.arg.path)
        => (last'.val = (last.op = "write_file"))]_vars

C20_Witness ==
  /\ last.op = "file_exists" /\ last.was /\ last.val
  /\ \E p \in DiskPaths : ~disk[p].on

\* -------------------------------------------------- the handles on a medium
\* The modes the handles are opened in: one that creates, the two that append.
StoreModes == {"w", "a", "a+"}

\* What the callers write through a handle.
HandlePayloads == { <<"x">>, <<"y", "x">> }

\* An operation of a handle served by the engine.
HStore(w, op, h, arg) ==
  /\ \E x \in {w} : ECommit(x) /\ HSet(x, op, h, 0, arg, is_open[h])
  /\ UNCHANGED svars

\* The callers open no file that another handle holds open: the engine keeps
\* one pointer per file object and does not reconcile them.
DOpen(h) ==
  /\ Alive(h)
  /\ \E mode \in StoreModes, path \in RawPaths, frOpen \in OpenStatuses :
       /\ nFiles < MaxFiles \/ frOpen # "FR_OK"
       /\ \A g \in Handles \ {h} : ~(is_open[g] /\ path_[g] = normalize_path(path))
       /\ HStore(FhOpen(HWorld, h, path, mode, frOpen, "FR_OK"), "open", h, mode)

DTell(h) ==
  /\ Alive(h)
  /\ \E at \in Answers(h, 0..MaxFileLen) :
       HStore(FhTell(HWorld, h, at), "tell", h, "")

DWrite(h) ==
  /\ Alive(h)
  /\ \E data \in HandlePayloads :
     \E put \in Answers(h, 0..Len(data)) :
       HStore(FhWrite(HWorld, h, data, "FR_OK", put), "write", h, data)

DClose(h) ==
  /\ Alive(h)
  /\ HStore(FhClose(HWorld, h), "close", h, "")

HandleStoreNext ==
  \/ \E h \in Handles : HConstruct(h)
  \/ \E h \in Handles : DOpen(h)
  \/ \E h \in Handles : DTell(h)
  \/ \E h \in Handles : DWrite(h)
  \/ \E h \in Handles : DClose(h)

\* The handles opening, writing and closing the files of a medium whose
\* engine answers every call by what the medium holds.
HandleStoreSpec == Init /\ [][HandleStoreNext]_vars

\* An open in mode a or a+ that succeeded.
AppendOpened(rec) ==
  rec.op = "open" /\ rec.arg \in {"a", "a+"} /\ is_ok(rec.kind)

\* C12: right after a successful open in mode a or a+ of a file of N bytes,
\* tell() on the handle returns N, and a write through the handle leaves the
\* N bytes as they were, followed by the bytes written.
C12_AppendOpenStartsAtEnd ==
  /\ [][(AppendOpened(last) /\ last'.op = "tell" /\ last'.obj = last.obj)
        => (is_ok(last'.kind)
            /\ last'.val = Len(disk[path_[last.obj]].bytes))]_vars
  /\ [][(/\ AppendOpened(last) /\ last'.op = "write" /\ last'.obj = last.obj
         /\ is_ok(last'.kind))
        => disk'[path_[last.obj]].bytes
             = disk[path_[last.obj]].bytes \o SubSeq(last'.arg, 1, last'.val)]_vars

C12_Witness ==
  /\ AppendOpened(last)
  /\ Len(disk[path_[last.obj]].bytes) > 1
  /\ fobj[file_[last.obj]].fptr = Len(disk[path_[last.obj]].bytes)

\* ------------------------------------------------------ copies on a medium
\* The request of a copy, as the caller made it.
CopyRequest(src_path, dst_path) ==
  [path |-> src_path, dst |-> dst_path, data |-> <<>>, append |-> FALSE]

DCopyFile(s) ==
  /\ Live(s)
  /\ \E src_path \in RawPaths, dst_path \in RawPaths :
     \E rOpen \in SAnswers(s, FsStatuses), data \in SAnswers(s, StoreContents) :
     \E put \in SAnswers(s, 0..Len(data)) :
       SStore(SsCopyFile(SWorld, s, src_path, dst_path, data, rOpen, "FR_OK",
                         Len(data), "FR_OK", "FR_OK", put),
              "copy_file", s, CopyRequest(src_path, dst_path))

SessionCopyNext ==
  \/ \E s \in Sessions : SConstruct(s)
  \/ \E s \in Sessions : SInitialize(s)
  \/ \E s \in Sessions : DWriteFile(s)
  \/ \E s \in Sessions : DReadFile(s)
  \/ \E s \in Sessions : DCopyFile(s)

\* The sessions writing, copying and reading the files of a medium whose
\* engine answers every call by what the medium holds.
SessionCopySpec == Init /\ [][SessionCopyNext]_vars

\* C21: a copy_file of a mounted session whose source is missing returns
\* NotFound after the one failed open, writes nothing and leaves the medium as
\* it was; one whose source is read and whose write comes out short returns
\* the write's IoError; any other succeeds and leaves in the target what the
\* source held, which the read_file of the target that follows returns. A
\* copy_file of an unmounted session returns read_file's kind with no engine
\* call.
C21_CopyReturnsFirstFailure ==
  /\ [][last'.op = "copy_file" =>
          LET src == normalize_path(last'.arg.path)
              dst == normalize_path(last'.arg.dst)
          IN IF ~last'.was
             THEN last'.kind = "MOUNT_FAILED" /\ last'.calls = <<>> /\ disk' = disk
             ELSE IF ~disk[src].on
             THEN /\ last'.kind = "FILE_NOT_FOUND" /\ disk' = disk
                  /\ CountCalls(last'.calls, "f_open") = 1
                  /\ CountCalls(last'.calls, "f_write") = 0
             ELSE IF ShortWrites(last'.calls) # {}
             THEN last'.kind = "IO_ERROR"
             ELSE /\ is_ok(last'.kind)
                  /\ disk'[dst] = [on |-> TRUE, bytes |-> disk[src].bytes]]_vars
  /\ [][(/\ last.op = "copy_file" /\ is_ok(last.kind)
         /\ last'.op = "read_file" /\ last'.was
         /\ last'.arg.path = last.arg.dst)
        => (is_ok(last'.kind)
            /\ last'.val = disk[normalize_path(last.arg.path)].bytes)]_vars

\* A copy whose source was read and whose write came out short.
C21_Witness ==
  /\ last.op = "copy_file" /\ last.kind = "IO_ERROR"
  /\ disk[normalize_path(last.arg.path)].on
  /\ Len(disk[normalize_path(last.arg.dst)].bytes)
       < Len(disk[normalize_path(last.arg.path)].bytes)

\* ------------------------------------------------------------- the listings
\* The entries a directory can hold: two files and two subdirectories, one
\* name a prefix of another.
PoolEntries ==
  { DirEntry(<<"b">>, {}, 1), DirEntry(<<"a", "b">>, {}, 2),
    DirEntry(<<"z">>, {"AM_DIR"}, 0), DirEntry(<<"a">>, {"AM_DIR"}, 0) }

\* The orders in which the engine can enumerate a set of entries.
RECURSIVE Enumerations(_)
Enumerations(entries) ==
  IF entries = {} THEN { <<>> }
  ELSE UNION { { <<e>> \o rest : rest \in Enumerations(entries \ {e}) } :
               e \in entries }

\* What the engine enumerates ahead of the entries: nothing, the self and
\* parent entries, or a hidden file.
DotRuns ==
  { <<>>,
    <<DirEntry(<<".">>, {"AM_DIR"}, 0), DirEntry(<<".", ".">>, {"AM_DIR"}, 0)>>,
    <<DirEntry(<<".", "x">>, {"AM_HID"}, 1)>> }

\* The engine's answers to the f_readdir calls of one list_directory, for
\* every directory content and every order.
ListingScripts ==
  { dots \o order \o <<EndOfDir>> :
      dots \in DotRuns,
      order \in UNION { Enumerations(content) : content \in SUBSET PoolEntries } }

LListDirectory(s) ==
  /\ Live(s)
  /\ \E path \in CallerPaths, answers \in SAnswers(s, ListingScripts) :
       SCommit(SsListDirectory(SWorld, s, path, "FR_OK", answers),
               "list_directory", s, 0, [path |-> path, answers |-> answers],
               is_mounted[s])

ListingNext ==
  \/ \E s \in Sessions : SConstruct(s)
  \/ \E s \in Sessions : SInitialize(s)
  \/ \E s \in Sessions : LListDirectory(s)

\* The sessions listing directories of every content in every enumeration
\* order.
ListingSpec == Init /\ [][ListingNext]_vars

\* The entries of an enumeration, whatever their order.
Enumerated(answers) == { answers[i] : i \in DOMAIN answers }

\* A list_directory of a mounted session that succeeded.
Listed(rec) == rec.op = "list_directory" /\ rec.was /\ is_ok(rec.kind)

\* a comes before b in the order of characters and lengths.
RECURSIVE LexBefore(_, _)
LexBefore(a, b) ==
  IF b = <<>> THEN FALSE
  ELSE IF a = <<>> THEN TRUE
  ELSE IF Head(a) # Head(b) THEN CharCode(Head(a)) < CharCode(Head(b))
  ELSE LexBefore(Tail(a), Tail(b))

\* C22: in the list a list_directory returns, every directory comes before
\* every file and, among directories and among files, names ascend; two
\* listings in a row of the same path whose enumerations hold the same
\* entries return the same list.
C22_ListingIsSorted ==
  /\ [](Listed(last) =>
          \A i \in DOMAIN last.val : \A j \in DOMAIN last.val :
            i < j =>
              IF last.val[i].is_directory # last.val[j].is_directory
              THEN last.val[i].is_directory
              ELSE LexBefore(last.val[i].name, last.val[j].name))
  /\ [][(/\ Listed(last) /\ Listed(last')
         /\ last.arg.path = last'.arg.path
         /\ Enumerated(last.arg.answers) = Enumerated(last'.arg.answers))
        => last'.val = last.val]_vars

\* A listing of two directories and two files that the engine enumerated
\* files first.
C22_Witness ==
  /\ Listed(last) /\ Len(last.val) = 4
  /\ ~("AM_DIR" \in last.arg.answers[1].attrib)
  /\ last.arg.answers[1].name = <<"b">>

\* C23: no entry of the list a list_directory returns has a name that begins
\* with '.'.
C23_NoDotNames ==
  Listed(last) => \A i \in DOMAIN last.val : Head(last.val[i].name) # "."

\* The current directory of session s differs after the step.
DirectoryChanged(s) ==
  sLife[s] = "alive" /\ sLife'[s] = "alive" /\ current_path'[s] # current_path[s]

\* The step is an open_directory of s that succeeded and set the current
\* directory to its normalized argument.
OpenedDirectory(s) ==
  /\ last'.op = "open_directory" /\ last'.obj = s /\ is_ok(last'.kind)
  /\ current_path'[s] = normalize_path(last'.arg)

\* The current directory is "/" after construction, and a successful
\* list_directory returns the entries under the current directory when its
\* path is empty and under its normalized path otherwise.
DirectoryIsListed ==
  /\ (last.op = "construct" => current_path[last.obj] = <<"/">>)
  /\ Listed(last) =>
       \A i \in DOMAIN last.val :
         last.val[i].full_path
           = join_path(IF last.arg.path = <<>> THEN current_path[last.obj]
                       ELSE normalize_path(last.arg.path),
                       last.val[i].name)

MaxPathLen == 4

\* The characters of the path strings: the separator, the dot and an
\* ordinary character.
PathChars == {"/", ".", "a"}

PathStrings == UNION { [1..n -> PathChars] : n \in 0..MaxPathLen }

\* The directory and file arguments of join_path.
JoinStrings == { p \in PathStrings : 2 * Len(p) <= MaxPathLen }

\* size_t std::string::find_last_of('/'), 0 for npos or position 0 and the
\* 1-based index of the last '/' otherwise.
LastSlash(str) ==
  LET at == { i \in 2..Len(str) : str[i] = "/" }
  IN IF at = {} THEN 0 ELSE CHOOSE i \in at : \A j \in at : j <= i

\* std::pair<std::string, std::string> SDCard::split_path(path)
split_path(path) ==
  LET normalized == normalize_path(path)
      pos == LastSlash(normalized)
  IN IF pos = 0 THEN << <<"/">>, SubSeq(normalized, 2, Len(normalized)) >>
     ELSE << SubSeq(normalized, 1, pos - 1),
             SubSeq(normalized, pos + 1, Len(normalized)) >>

\* The record of a call of one of the static path functions.
PathCall(op, arg, val) ==
  [op |-> op, obj |-> 0, src |-> 0, arg |-> arg, was |-> FALSE,
   kind |-> "SUCCESS", fr |-> "FR_OK", msg |-> <<>>, val |-> val,
   has_value |-> FALSE, calls |-> <<>>]

PNormalizePath ==
  /\ \E path \in PathStrings :
       last' = PathCall("normalize_path", path, normalize_path(path))
  /\ UNCHANGED <<hvars, svars, evars>>

PJoinPath ==
  /\ \E dir \in JoinStrings, file \in JoinStrings :
       last' = PathCall("join_path", <<dir, file>>, join_path(dir, file))
  /\ UNCHANGED <<hvars, svars, evars>>

PSplitPath ==
  /\ \E path \in PathStrings :
       last' = PathCall("split_path", path, split_path(path))
  /\ UNCHANGED <<hvars, svars, evars>>

\* auto [parent, leaf] = split_path(normalize_path(path));
\* join_path(parent, leaf)
PSplitJoin ==
  /\ \E path \in PathStrings :
       LET parts == split_path(normalize_path(path))
       IN last' = PathCall("split_join", path, join_path(parts[1], parts[2]))
  /\ UNCHANGED <<hvars, svars, evars>>

PathNext == PNormalizePath \/ PJoinPath \/ PSplitPath \/ PSplitJoin

\* The static path functions applied to every path string.
PathSpec == Init /\ [][PathNext]_vars

\* C25: normalizing the result of normalize_path gives that result again.
C25_NormalizeIsIdempotent ==
  last.op = "normalize_path" => normalize_path(last.val) = last.val

\* A path that starts with '/', has no two '/' in a row and ends with '/'
\* only if it is "/".
Canonical(str) ==
  /\ str # <<>> /\ str[1] = "/"
  /\ \A i \in 1..(Len(str) - 1) : ~(str[i] = "/" /\ str[i + 1] = "/")
  /\ str[Len(str)] = "/" => str = <<"/">>

\* C26: the results of normalize_path and join_path and the parent returned
\* by split_path are canonical.
C26_ResultsAreCanonical ==
  /\ last.op \in {"normalize_path", "join_path"} => Canonical(last.val)
  /\ last.op = "split_path" => Canonical(last.val[1])

\* C27: for a path whose normalized form is not the root, joining the parent
\* and leaf of the split of the normalized form gives the normalized form.
C27_SplitThenJoin ==
  (last.op = "split_join" /\ normalize_path(last.arg) # <<"/">>)
    => last.val = normalize_path(last.arg)

\* ----------------------------------------------------- the error translation
TCreateDirectory(s) ==
  /\ Live(s)
  /\ \E path \in CallerPaths, fr \in SAnswers(s, FResults) :
       SCommit(SsCreateDirectory(SWorld, s, path, fr), "create_directory", s, 0,
               path, is_mounted[s])

TDeleteFile(s) ==
  /\ Live(s)
  /\ \E path \in CallerPaths, fr \in SAnswers(s, FResults) :
       SCommit(SsDeleteFile(SWorld, s, path, fr), "delete_file", s, 0, path,
               is_mounted[s])

TranslationNext ==
  \/ \E s \in Sessions : SConstruct(s)
  \/ \E s \in Sessions : SInitialize(s)
  \/ \E s \in Sessions : TCreateDirectory(s)
  \/ \E s \in Sessions : TDeleteFile(s)

\* The sessions creating directories and deleting files on an engine that
\* answers with any of its statuses.
TranslationSpec == Init /\ [][TranslationNext]_vars

\* C28: an operation of a mounted session that the engine answers with a
\* status returns one kind of the taxonomy: NotFound for a missing file or
\* path, PermissionDenied for a write-protected medium.
C28_TranslationFollowsTaxonomy ==
  (last.op \in {"create_directory", "delete_file"} /\ last.was) =>
    /\ last.kind \in ErrorCodes
    /\ last.fr \in {"FR_NO_FILE", "FR_NO_PATH"} => last.kind = "FILE_NOT_FOUND"
    /\ last.fr = "FR_WRITE_PROTECTED" => last.kind = "PERMISSION_DENIED"

\* ------------------------------------------------------------- the capacity
\* The geometries the engine reports: entries of the allocation table
\* (n_fatent), sectors per cluster (csize) and free clusters, from a volume
\* of 4 KiB to one of 32 GiB.
Geometries ==
  { [n_fatent |-> n, csize |-> c, free_clusters |-> f] :
      n \in {10, 65538, 1000002, 8388610}, c \in {1, 8, 64}, f \in {0, 3, 65536} }

CGetCapacity(s) ==
  /\ Live(s)
  /\ \E fr \in SAnswers(s, FsStatuses), g \in SAnswers(s, Geometries) :
       SCommit(SsGetCapacity(SWorld, s, fr, g.free_clusters, g.n_fatent, g.csize),
               "get_capacity", s, 0, g, is_mounted[s])

CapacityNext ==
  \/ \E s \in Sessions : SConstruct(s)
  \/ \E s \in Sessions : SInitialize(s)
  \/ \E s \in Sessions : CGetCapacity(s)

\* The sessions asking for the capacity of volumes of every geometry.
CapacitySpec == Init /\ [][CapacityNext]_vars

\* The word is the number of bytes of k sectors of 512 bytes, which fits in
\* 32 bits: k < 2^23, and k * 512 has the halves k / 128 and (k mod 128) * 512.
IsBytesOfSectors(word, k) ==
  k < 8388608 /\ word = <<k \div 128, (k % 128) * 512>>

\* C29: a get_capacity of a mounted session whose free-space query succeeds
\* returns (n_fatent - 2) * csize * 512 and free_clusters * csize * 512 as
\* the exact integers; one whose query fails returns the translated status.
C29_CapacityIsExact ==
  (last.op = "get_capacity" /\ last.was) =>
    IF last.fr = "FR_OK"
    THEN /\ is_ok(last.kind)
         /\ IsBytesOfSectors(last.val[1], (last.arg.n_fatent - 2) * last.arg.csize)
         /\ IsBytesOfSectors(last.val[2], last.arg.free_clusters * last.arg.csize)
    ELSE last.kind = fresult_to_error_code(last.fr)

\* ----------------------------------------------------------------- the lines
\* The bytes the callers write one at a time: an ordinary character, a
\* carriage return and a line feed.
LineBytes == { <<"x">>, <<"\r">>, <<"\n">> }

\* The answers of the engine to the one-byte reads of one read_line: bytes
\* other than the line feed, then the line feed or the end of the file.
LineScripts ==
  { body \o <<stop>> :
      body \in UNION { [1..n -> {"x", "\r"}] : n \in 0..MaxFileLen },
      stop \in {"\n", "eof"} }

\* The callers write through handles opened for writing and read through
\* handles opened for reading, and open no file another handle holds open.
LOpen(h) ==
  /\ Alive(h)
  /\ \E mode \in {"w", "r"}, path \in CallerPaths, frOpen \in OpenStatuses :
       /\ nFiles < MaxFiles \/ frOpen # "FR_OK"
       /\ \A g \in Handles \ {h} : ~(is_open[g] /\ path_[g] = normalize_path(path))
       /\ HStore(FhOpen(HWorld, h, path, mode, frOpen, "FR_OK"), "open", h, mode)

LWrite(h) ==
  /\ Alive(h)
  /\ \E data \in LineBytes :
     \E put \in Answers(h, 0..Len(data)) :
       HStore(FhWrite(HWorld, h, data, "FR_OK", put), "write", h, data)

LReadLine(h) ==
  /\ Alive(h)
  /\ \E answers \in Answers(h, LineScripts) :
       HStore(FhReadLine(HWorld, h, answers), "read_line", h, "")

LineNext ==
  \/ \E h \in Handles : HConstruct(h)
  \/ \E h \in Handles : LOpen(h)
  \/ \E h \in Handles : LWrite(h)
  \/ \E h \in Handles : DClose(h)
  \/ \E h \in Handles : LReadLine(h)

\* The handles writing files byte by byte and reading them line by line on
\* a medium whose engine answers every call by what the medium holds.
LineSpec == Init /\ [][LineNext]_vars

\* The index of the first line feed of a byte sequence, one past its end if
\* it has none.
LineEnd(bytes) ==
  LET feeds == { i \in DOMAIN bytes : bytes[i] = "\n" }
  IN IF feeds = {} THEN Len(bytes) + 1
     ELSE CHOOSE i \in feeds : \A j \in feeds : i <= j

\* The bytes of a sequence that are not carriage returns.
WithoutReturns(bytes) ==
  LET Kept(c) == c # "\r" IN SelectSeq(bytes, Kept)

\* C30: a read_line on an open handle succeeds, returns the bytes from the
\* position up to the next line feed (or to the end of the file) without the
\* carriage returns among them, and leaves the position past that line feed
\* (or at the end of the file); at the end of the file it returns the empty
\* string.
C30_ReadLineReturnsLines ==
  [][(last'.op = "read_line" /\ last'.was) =>
       LET id == file_[last'.obj]
           bytes == disk[fobj[id].path].bytes
           rest == SubSeq(bytes, fobj[id].fptr + 1, Len(bytes))
           k == LineEnd(rest)
       IN /\ is_ok(last'.kind)
          /\ last'.val = WithoutReturns(SubSeq(rest, 1, k - 1))
          /\ fobj'[id].fptr = fobj[id].fptr + Min(k, Len(rest))]_vars

\* A first line "x" read from a file that holds "x\r\n".
C30_Witness ==
  /\ last.op = "read_line" /\ is_ok(last.kind) /\ last.val = <<"x">>
  /\ disk[path_[last.obj]].bytes = <<"x", "\r", "\n">>
  /\ fobj[file_[last.obj]].fptr = 3

\* ------------------------------------------------------ stream handle writes
\* C31: on an open handle, write(bytes) and write(text) issue one f_write; when
\* it returns FR_OK they return success carrying the number of bytes the engine
\* reports written, also when that number is smaller than the length asked;
\* when it fails they return the translated engine error; the handle stays
\* open either way.
C31_HandleWriteReportsCount ==
  (last.op \in {"write", "write_text"} /\ last.was) =>
    /\ Len(last.calls) = 1 /\ last.calls[1].fn = "f_write"
    /\ last.calls[1].ok =>
         /\ last.kind = "SUCCESS"
         /\ last.val = last.calls[1].done
    /\ ~last.calls[1].ok =>
         /\ last.fr # "FR_OK"
         /\ last.kind = fresult_to_error_code(last.fr)
         /\ is_error(last.kind)
    /\ is_open[last.obj]

\* A write of two bytes of which the engine reports one written, returned as
\* success carrying 1.
C31_Witness ==
  /\ last.op = "write" /\ last.was /\ last.kind = "SUCCESS"
  /\ ShortWrites(last.calls) # {}
  /\ last.val = 1 /\ last.calls[1].asked = 2
  /\ is_open[last.obj]

\* ------------------------------------------------------- pending writes
\* The bytes of a path another file object finds on the medium.
OnMedium(p) == SubSeq(disk[p].bytes, 1, Min(synced[p], Len(disk[p].bytes)))

MSync(s) ==
  /\ Live(s)
  /\ SStore(SsSync(SWorld, s, "FR_OK"), "sync", s, Request(<<>>, <<>>, FALSE))

MReadFile(s) ==
  /\ Live(s)
  /\ \E path \in RawPaths, frOpen \in SAnswers(s, FsStatuses) :
     \E got \in SAnswers(s, { OnMedium(p) : p \in DiskPaths }) :
       SStore(SsReadFile(SWorld, s, path, frOpen, "FR_OK", got), "read_file", s,
              Request(path, <<>>, FALSE))

\* The callers open no file that another handle holds open.
MOpen(h) ==
  /\ Alive(h)
  /\ \E mode \in {"w", "a"}, path \in RawPaths :
       /\ nFiles < MaxFiles
       /\ \A g \in Handles \ {h} : ~(is_open[g] /\ path_[g] = normalize_path(path))
       /\ HStore(FhOpen(HWorld, h, path, mode, "FR_OK", "FR_OK"), "open", h, mode)

\* The session whose calls are followed.
Syncing == {1}

PendingNext ==
  \/ \E s \in Syncing : SConstruct(s)
  \/ \E s \in Syncing : SInitialize(s)
  \/ \E h \in Handles : HConstruct(h)
  \/ \E h \in Handles : MOpen(h)
  \/ \E h \in Handles : DWrite(h)
  \/ \E s \in Syncing : MSync(s)
  \/ \E s \in Syncing : MReadFile(s)

\* Handles writing files that sessions sync and read back, on a medium whose
\* engine answers every call by what the medium holds.
PendingSpec == Init /\ [][PendingNext]_vars

BadOptionalAccess == "bad_optional_access"

\* const T& Result<T>::operator*() const { return value_.value(); }
Deref(r) == IF r.has_value THEN r.val ELSE BadOptionalAccess

\* The operations that return a Result, and those whose Result carries a value.
ValueOps ==
  { "get_capacity", "list_directory", "get_file_info", "read_file",
    "read_file_chunk", "open_file", "read", "read_line", "write", "write_text",
    "tell", "size" }
ResultOps ==
  ValueOps \cup
  { "initialize", "open_directory", "create_directory", "remove_directory",
    "write_file", "write_text_file", "delete_file", "rename", "copy_file",
    "sync", "format", "open", "seek", "flush" }

\* A session's operations that return a Result, with those of the handles
\* open_file returns.
ResultNext ==
  \/ SConstruct(1)
  \/ SInitialize(1)
  \/ SGetCapacity(1)
  \/ SOpenDirectory(1)
  \/ SListDirectory(1)
  \/ SCreateDirectory(1)
  \/ SRemoveDirectory(1)
  \/ SGetFileInfo(1)
  \/ SReadFile(1)
  \/ SReadFileChunk(1)
  \/ SWriteFile(1)
  \/ SWriteTextFile(1)
  \/ SDeleteFile(1)
  \/ SRename(1)
  \/ SCopyFile(1)
  \/ SSync(1)
  \/ SFormat(1)
  \/ SOpenFile(1)
  \/ \E h \in Handles : HOpen(h)
  \/ HandleIoNext

ResultSpec == Init /\ [][ResultNext]_vars

\* C33: every Result an operation returns has one kind of the taxonomy, with
\* is_ok() == !is_error() == (kind == SUCCESS); a Result that carries a value
\* holds one exactly when it is_ok(), and dereferencing one that is_error()
\* raises bad_optional_access instead of yielding a value.
C33_ResultIsTagged ==
  last.op \in ResultOps =>
    /\ last.kind \in ErrorCodes
    /\ is_ok(last.kind) = ~is_error(last.kind)
    /\ is_ok(last.kind) = (last.kind = "SUCCESS")
    /\ last.op \in ValueOps =>
         /\ last.has_value = is_ok(last.kind)
         /\ is_error(last.kind) => Deref(last) = BadOptionalAccess
         /\ is_ok(last.kind) => Deref(last) = last.val

\* A read_file that failed in the engine: its Result holds no value.
C33_Witness ==
  /\ last.op = "read_file" /\ last.was /\ is_error(last.kind)
  /\ last.fr # "FR_OK" /\ ~last.has_value
  /\ Deref(last) = BadOptionalAccess

\* ------------------------------------------------- open_file and the mount
\* C34: an open_file on a session that is not mounted returns an error and
\* issues no f_open, so that no handle comes out of it open.
C34_OpenFileNeedsMount ==
  (last.op = "open_file" /\ ~last.was) =>
    /\ is_error(last.kind)
    /\ CountCalls(last.calls, "f_open") = 0
    /\ ~is_open[last.src]

\* ----------------------------------------------------------------- re-opening
\* What a caller asks of an open.
OpenRequest(path, mode) == [path |-> path, mode |-> mode]

ROpen(h) ==
  /\ Alive(h)
  /\ \E mode \in ModeArgs :
     \E path \in RawPaths, frOpen \in OpenAnswers(mode) :
     \E frSeek \in SeekStatuses(mode, frOpen) :
       /\ nFiles < MaxFiles \/ frOpen # "FR_OK" \/ mode \notin OpenModes
       /\ HCommit(FhOpen(HWorld, h, path, mode, frOpen, frSeek), "open", h, 0,
                  OpenRequest(path, mode), is_open[h])

ReopenNext ==
  \/ \E h \in Handles : HConstruct(h)
  \/ \E h \in Handles : ROpen(h)
  \/ \E h \in Handles : HClose(h)

\* Handles opened, opened again and closed.
ReopenSpec == Init /\ [][ReopenNext]_vars

\* The f_open of an open succeeded, and so did the seek of an append mode.
EngineOpened(rec) ==
  /\ \E i \in DOMAIN rec.calls : rec.calls[i] = [fn |-> "f_open", ok |-> TRUE]
  /\ \A i \in DOMAIN rec.calls : rec.calls[i].fn = "f_lseek" => rec.calls[i].ok

\* C35: when open returns on a handle that was open, the engine file object
\* the handle held has received its one f_close and the handle does not hold
\* it open; is_open() is true iff the new f_open (and the seek of an append
\* mode) succeeded; path() is the normalized new path when the handle is open
\* and empty otherwise; no open handle ever holds an object that was closed.
C35_ReopenReleasesOldFile ==
  /\ [][(last'.op = "open" /\ last'.was) =>
          LET h == last'.obj
              old == file_[h]
          IN /\ fcloses[old] = 0 /\ fcloses'[old] = 1
             /\ last'.calls # <<>> /\ Head(last'.calls).fn = "f_close"
             /\ ~(is_open'[h] /\ file_'[h] = old)
             /\ is_open'[h] <=> EngineOpened(last')
             /\ is_open'[h] <=> is_ok(last'.kind)
             /\ path_'[h] = (IF is_open'[h] THEN normalize_path(last'.arg.path)
                             ELSE <<>>)]_vars
  /\ [](\A h \in Handles : is_open[h] => fcloses[file_[h]] = 0)

\* A handle open on one path was opened on the other and holds a new object.
C35_Witness ==
  /\ last.op = "open" /\ last.was /\ is_ok(last.kind)
  /\ is_open[last.obj] /\ file_[last.obj] = 2 /\ fcloses[1] = 1
  /\ path_[last.obj] = normalize_path(last.arg.path)

\* ------------------------------------------------- failures inside operations
\* The calls of a trace that failed.
FailedCalls(calls, fn) ==
  {i \in DOMAIN calls : calls[i].fn = fn /\ ~calls[i].ok}

\* C36: list_directory returns success only when no f_readdir failed, that is
\* when the enumeration reached the end of the directory; an f_readdir
\* failure part-way is returned as the translated error.
C36_ReaddirFailureIsReturned ==
  last.op = "list_directory" =>
    /\ is_ok(last.kind) => FailedCalls(last.calls, "f_readdir") = {}
    /\ FailedCalls(last.calls, "f_readdir") # {} => is_error(last.kind)

\* The answers the engine may give a write_file of n bytes whose f_open and
\* f_write succeed: the count written and the status of the f_close.
CloseAnswers(s, n) ==
  SAnswers(s, { <<put, frClose>> : put \in {n - 1, n}, frClose \in IoStatuses })

KWriteFile(s) ==
  /\ Live(s)
  /\ \E path \in CallerPaths, data \in Payloads, append \in SAnswers(s, BOOLEAN) :
     \E a \in CloseAnswers(s, Len(data)) :
       SCommit(SsWriteFile(SWorld, s, path, data, append, "FR_OK", "FR_OK", "FR_OK",
                           a[1], a[2]),
               "write_file", s, 0, "", is_mounted[s])

\* The sessions' lifetime and write_file on an engine whose f_close may fail.
CloseSpec ==
  Init /\ [][SessionLifeNext \/ (\E s \in Sessions : KWriteFile(s))]_vars

\* C37: write_file returns success only if every engine call it made
\* succeeded, the last f_close included; a failing f_close is returned as an
\* error.
C37_CloseFailureIsReturned ==
  last.op = "write_file" =>
    /\ is_ok(last.kind) => \A i \in DOMAIN last.calls : last.calls[i].ok
    /\ FailedCalls(last.calls, "f_close") # {} => is_error(last.kind)

\* ------------------------------------------------- the session's directory
\* C38: the directory object a successful open_directory opened receives one
\* f_closedir: from the next open_directory of its session, or else from the
\* session's destruction or from the move assignment that overwrites the
\* session.
C38_DirectoryIsClosed ==
  [][/\ (last'.op = "open_directory" /\ last'.was /\ has_dir[last'.obj])
        => CountCalls(last'.calls, "f_closedir") = 1
     /\ (last'.op = "destroy" /\ has_dir[last'.obj])
        => CountCalls(last'.calls, "f_closedir") = 1
     /\ (last'.op = "move_assign" /\ last'.obj # last'.src /\ has_dir[last'.obj])
        => CountCalls(last'.calls, "f_closedir") = 1]_vars

\* --------------------------------------------------------- removing entries
DRemoveDirectory(s) ==
  /\ Live(s)
  /\ \E path \in RawPaths, fr \in SAnswers(s, FsStatuses) :
       SStore(SsRemoveDirectory(SWorld, s, path, fr), "remove_directory", s,
              Request(path, <<>>, FALSE))

RemovalNext ==
  \/ SConstruct(1)
  \/ SInitialize(1)
  \/ DWriteFile(1)
  \/ DRemoveDirectory(1)
  \/ DDeleteFile(1)

\* A session writing files and removing entries on a medium whose engine
\* answers every call by what the medium holds.
RemovalSpec == Init /\ [][RemovalNext]_vars

\* C39: remove_directory on a path that names a regular file returns an error
\* and leaves the file in place; delete_file removes regular files.
C39_RemoveDirectorySparesFiles ==
  [][(/\ last'.op = "remove_directory" /\ last'.was
      /\ disk[Target(last')].on)
     => (/\ is_error(last'.kind)
         /\ disk'[Target(last')] = disk[Target(last')])]_vars

\* ---------------------------------------------------------------- formatting
\* The kinds callers ask format for.
FormatNames == {"FAT16", "ext4"}

GFormat(s) ==
  /\ Live(s)
  /\ \E fs_name \in SAnswers(s, FormatNames), fr \in SAnswers(s, IoStatuses) :
       SCommit(SsFormat(SWorld, s, fs_name, fr), "format", s, 0, fs_name,
               is_mounted[s])

FormatNext ==
  \/ \E s \in Sessions : GFormat(s)
  \/ \E s \in Sessions : SGetFilesystemType(s)

\* The sessions' lifetime with format and get_filesystem_type.
FormatSpec == Init /\ [][SessionLifeNext \/ FormatNext]_vars

\* C40: the initialize() that follows a successful format(kind) issues at least
\* one f_mount, and leaves in fs_type_, which get_filesystem_type() reports,
\* the kind of the filesystem format made.
C40_InitializeRemountsAfterFormat ==
  [][(/\ last.op = "format" /\ is_ok(last.kind)
      /\ last'.op = "initialize" /\ last'.obj = last.obj)
     => (/\ CountCalls(last'.calls, "f_mount") >= 1
         /\ is_ok(last'.kind) => fs_type'[last.obj] = FormatKind(last.arg))]_vars

====
